---------------------------- MODULE Spec2Model ----------------------------
(***************************************************************************)
(* A model of the diffx edit-script engine (github.com/dacharyc/diffx):    *)
(* the Myers driver (DiffElements: preprocessing, compareSeq over          *)
(* findMiddleSnake, buildOps, mapOps, shiftBoundaries) and the histogram   *)
(* driver (DiffElementsHistogram: histogramDiff with its Myers fallback,   *)
(* eliminateWeakAnchors, shiftBoundaries).                                 *)
(*                                                                         *)
(* Go slices are 0-based; a slice of length n is modelled either as a      *)
(* TLA+ sequence (element i of the slice is seq[i+1]) or, for the scratch  *)
(* arrays of diffContext, as a function on 0..n-1.  An index outside a     *)
(* slice is a Go run-time panic: the model records it (panic = TRUE) and   *)
(* the call ends without a result.                                         *)
(***************************************************************************)
EXTENDS Integers, Sequences, FiniteSets, TLC

(***************************************************************************)
(* Bounds of the model (not program constants).                            *)
(***************************************************************************)
MaxTotalLen == 6

MaxCostLimit == 1

MaxMinimalLen == 7
MaxAnchorLen == 5
MaxShiftLen == 4
MaxMergeLen == 3
MaxMapLen == 3
MaxConcurrentLen == 3
MaxFilterLen == 4
MaxCommonLenA == 6
MaxCommonLenB == 8

(***************************************************************************)
(* Program constants.                                                      *)
(***************************************************************************)
significantMatchLen == 16
minCostLimit == 256
maxChainLength == 64
minThreshold == 8
blankLineBonus == 10
startOfLineBonus == 3
endOfLineBonus == 3
punctuationBonus == 2

(***************************************************************************)
(* Elements.  An Element offers Equal and Hash.  StringElement compares    *)
(* the strings and hashes them with FNV-1a, modelled as injective on the   *)
(* strings of the model (hash = the string itself).  OtherElement stands   *)
(* for a caller's own Element type (CustomElement in example_test.go)      *)
(* whose Hash need not be injective: two unequal values may share a hash.  *)
(* Values and hashes are strings in the model.                             *)
(***************************************************************************)
Str(s) == [kind |-> "StringElement", val |-> s, hash |-> s]

Other(id, h) == [kind |-> "OtherElement", val |-> id, hash |-> h]

Equal(e1, e2) == e1.kind = e2.kind /\ e1.val = e2.val

Hash(e) == e.hash

Min(x, y) == IF x < y THEN x ELSE y

Max(x, y) == IF x > y THEN x ELSE y

abs(x) == IF x < 0 THEN -x ELSE x

RECURSIVE isqrtLoop(_, _, _)
isqrtLoop(n, x, y) == IF y < x THEN isqrtLoop(n, y, (y + n \div y) \div 2) ELSE x

isqrt(n) == IF n <= 0 THEN 0 ELSE IF n = 1 THEN 1 ELSE isqrtLoop(n, n, (n + 1) \div 2)

(***************************************************************************)
(* DiffOp and the merge of adjacent operations.                            *)
(***************************************************************************)
Op(t, as, ae, bs, be) == [Type |-> t, AStart |-> as, AEnd |-> ae, BStart |-> bs, BEnd |-> be]

\* A merge loop that does not look at the B coordinates.
RECURSIVE mergeLoopOnAOnly(_, _, _, _)
mergeLoopOnAOnly(ops, i, current, result) ==
    IF i > Len(ops) THEN Append(result, current)
    ELSE LET op == ops[i]
             canMerge == current.Type = op.Type /\ current.AEnd = op.AStart
         IN IF canMerge
            THEN mergeLoopOnAOnly(ops, i + 1,
                                  [current EXCEPT !.AEnd = op.AEnd, !.BEnd = op.BEnd], result)
            ELSE mergeLoopOnAOnly(ops, i + 1, op, Append(result, current))

RECURSIVE mergeLoop(_, _, _, _)
mergeLoop(ops, i, current, result) ==
    IF i > Len(ops) THEN Append(result, current)
    ELSE LET op == ops[i]
             canMerge == current.Type = op.Type /\ current.AEnd = op.AStart
                         /\ current.BEnd = op.BStart
         IN IF canMerge
            THEN mergeLoop(ops, i + 1, [current EXCEPT !.AEnd = op.AEnd, !.BEnd = op.BEnd], result)
            ELSE mergeLoop(ops, i + 1, op, Append(result, current))

mergeAdjacentOps(ops) == IF Len(ops) <= 1 THEN ops ELSE mergeLoop(ops, 2, ops[1], <<>>)

\* A mapOps that returns its element-by-element result unmerged.
mergeOpsSkipped(ops) == ops

mergeOps(ops) == IF Len(ops) <= 1 THEN ops ELSE mergeLoop(ops, 2, ops[1], <<>>)

(***************************************************************************)
(* diffContext.  A run of the Myers core is the record                     *)
(*   [xvec, yvec, fdiag, bdiag, xchanges, ychanges, useHeuristic,          *)
(*    costLimit, stack, panic, last]                                       *)
(* where stack holds the compareSeq calls still to be made (the Go call    *)
(* stack: the lower half of a split is on top of the upper half), and      *)
(* last describes the most recent compareSeq call.                         *)
(***************************************************************************)
ZeroArray(n) == [i \in 0 .. n - 1 |-> 0]

FalseArray(n) == [i \in 0 .. n - 1 |-> FALSE]

NoCall == [kind |-> "none"]

AutoCostLimit(n, m) == Max(minCostLimit, isqrt(n * m) \div 4)

Frame(xoff, xlim, yoff, ylim, findMinimal, parent) ==
    [xoff |-> xoff, xlim |-> xlim, yoff |-> yoff, ylim |-> ylim,
     findMinimal |-> findMinimal, parent |-> parent]

Rect(xoff, xlim, yoff, ylim) == <<xoff, xlim, yoff, ylim>>

newDiffContext(x, y, opts) ==
    [xvec |-> x, yvec |-> y,
     fdiag |-> ZeroArray(Len(x) + Len(y) + 3),
     bdiag |-> ZeroArray(Len(x) + Len(y) + 3),
     xchanges |-> FalseArray(Len(x)),
     ychanges |-> FalseArray(Len(y)),
     useHeuristic |-> opts.useHeuristic,
     costLimit |-> IF opts.costLimit = 0 /\ opts.useHeuristic
                   THEN AutoCostLimit(Len(x), Len(y)) ELSE opts.costLimit,
     stack |-> <<>>, panic |-> FALSE, last |-> NoCall]

\* ctx.equal(i, j): ok is FALSE when an index is outside its slice.
equal(c, i, j) ==
    IF i < 0 \/ i >= Len(c.xvec) \/ j < 0 \/ j >= Len(c.yvec)
    THEN [ok |-> FALSE, eq |-> FALSE]
    ELSE [ok |-> TRUE, eq |-> Equal(c.xvec[i + 1], c.yvec[j + 1])]


(***************************************************************************)
(* findMiddleSnake: the bidirectional search.  The loops over d and k are  *)
(* recursive operators over the search state                               *)
(*   s = [fdiag, bdiag, bestSnake, bestSnakeScore, ret, panic]             *)
(* with ret.via = "none" while the search continues.  f holds the values   *)
(* computed once per call.                                                 *)
(***************************************************************************)
\* Go's integer division truncates toward zero.
GoDiv(x, y) == IF x >= 0 THEN x \div y ELSE -((-x) \div y)

Partition(xmid, ymid, lo, hi, via) ==
    [xmid |-> xmid, ymid |-> ymid, loMinimal |-> lo, hiMinimal |-> hi, via |-> via]

NoPartition == Partition(-1, -1, FALSE, FALSE, "none")

NoSnake == [x |-> 0, y |-> 0, len |-> 0, forward |-> FALSE]

snakeToPartition(snake, xoff, yoff, via) ==
    IF snake.forward
    THEN Partition(xoff + snake.x, yoff + snake.y, TRUE, FALSE, via)
    ELSE Partition(xoff + snake.x, yoff + snake.y, FALSE, TRUE, via)

RECURSIVE slideForward(_, _, _, _)
slideForward(c, f, x, y) ==
    IF x < f.n /\ y < f.m
    THEN LET e == equal(c, f.xoff + x, f.yoff + y)
         IN IF ~e.ok THEN [x |-> x, panic |-> TRUE]
            ELSE IF e.eq THEN slideForward(c, f, x + 1, y + 1)
            ELSE [x |-> x, panic |-> FALSE]
    ELSE [x |-> x, panic |-> FALSE]

RECURSIVE slideBackward(_, _, _, _)
slideBackward(c, f, x, y) ==
    IF x > 0 /\ y > 0
    THEN LET e == equal(c, f.xoff + x - 1, f.yoff + y - 1)
         IN IF ~e.ok THEN [x |-> x, panic |-> TRUE]
            ELSE IF e.eq THEN slideBackward(c, f, x - 1, y - 1)
            ELSE [x |-> x, panic |-> FALSE]
    ELSE [x |-> x, panic |-> FALSE]

\* The score of a diagonal run of snakeLen matches ending (or starting) at (x, y).
snakeScore(f, x, y, snakeLen) == snakeLen * 2 - abs(GoDiv(x + y, 2) - GoDiv(f.n + f.m, 4))

trackSnake(f, s, x, y, snakeLen, forward) ==
    IF f.useHeuristic /\ snakeLen >= significantMatchLen
          /\ snakeScore(f, x, y, snakeLen) > s.bestSnakeScore
    THEN [s EXCEPT !.bestSnakeScore = snakeScore(f, x, y, snakeLen),
                   !.bestSnake = [x |-> x, y |-> y, len |-> snakeLen, forward |-> forward]]
    ELSE s

RECURSIVE forwardLoop(_, _, _, _, _, _)
forwardLoop(c, f, d, k, kMax, s) ==
    IF k > kMax THEN s
    ELSE LET kIdx == f.offset + k IN
      IF kIdx - 1 < 0 \/ kIdx + 1 >= f.diagLen
      THEN forwardLoop(c, f, d, k + 2, kMax, s)
      ELSE LET x0 == IF k = -d \/ (k # d /\ s.fdiag[kIdx - 1] < s.fdiag[kIdx + 1])
                     THEN s.fdiag[kIdx + 1]
                     ELSE s.fdiag[kIdx - 1] + 1
               y0 == x0 - k
           IN IF y0 < 0 \/ y0 > f.m \/ x0 < 0 \/ x0 > f.n
              THEN forwardLoop(c, f, d, k + 2, kMax, [s EXCEPT !.fdiag[kIdx] = x0])
              ELSE LET sl == slideForward(c, f, x0, y0)
                       x == sl.x
                       y == x - k
                       s1 == trackSnake(f, [s EXCEPT !.fdiag[kIdx] = x], x, y, x - x0, TRUE)
                       bIdx == f.offset + k - f.delta
                   IN IF sl.panic THEN [s EXCEPT !.panic = TRUE]
                      ELSE IF f.deltaOdd /\ k >= f.delta - (d - 1) /\ k <= f.delta + (d - 1)
                              /\ bIdx >= 0 /\ bIdx < f.diagLen
                              /\ s1.fdiag[kIdx] >= s1.bdiag[bIdx]
                      THEN [s1 EXCEPT !.ret = Partition(f.xoff + x, f.yoff + y, TRUE, TRUE, "overlap")]
                      ELSE forwardLoop(c, f, d, k + 2, kMax, s1)

RECURSIVE backwardLoop(_, _, _, _, _, _)
backwardLoop(c, f, d, k, kMax, s) ==
    IF k > kMax THEN s
    ELSE LET kIdx == f.offset + k IN
      IF kIdx - 1 < 0 \/ kIdx + 1 >= f.diagLen
      THEN backwardLoop(c, f, d, k + 2, kMax, s)
      ELSE LET x0 == IF k = d \/ (k # -d /\ s.bdiag[kIdx - 1] < s.bdiag[kIdx + 1])
                     THEN s.bdiag[kIdx - 1]
                     ELSE s.bdiag[kIdx + 1] - 1
               y0 == x0 - k - f.delta
           IN IF y0 < 0 \/ y0 > f.m \/ x0 < 0 \/ x0 > f.n
              THEN backwardLoop(c, f, d, k + 2, kMax, [s EXCEPT !.bdiag[kIdx] = x0])
              ELSE LET sl == slideBackward(c, f, x0, y0)
                       x == sl.x
                       y == x - k - f.delta
                       s1 == trackSnake(f, [s EXCEPT !.bdiag[kIdx] = x], x, y, x0 - x, FALSE)
                       fIdx == f.offset + k + f.delta
                   IN IF sl.panic THEN [s EXCEPT !.panic = TRUE]
                      ELSE IF ~f.deltaOdd /\ k + f.delta >= -d /\ k + f.delta <= d
                              /\ fIdx >= 0 /\ fIdx < f.diagLen
                              /\ s1.fdiag[fIdx] >= s1.bdiag[kIdx]
                      THEN [s1 EXCEPT !.ret = Partition(f.xoff + s1.fdiag[fIdx],
                                                        f.yoff + s1.fdiag[fIdx] - (k + f.delta),
                                                        TRUE, TRUE, "overlap")]
                      ELSE backwardLoop(c, f, d, k + 2, kMax, s1)

RECURSIVE greedyMatch(_, _, _)
greedyMatch(c, f, x) ==
    IF x < f.n /\ x < f.m
    THEN LET e == equal(c, f.xoff + x, f.yoff + x)
         IN IF ~e.ok THEN [x |-> x, panic |-> TRUE]
            ELSE IF e.eq THEN greedyMatch(c, f, x + 1)
            ELSE [x |-> x, panic |-> FALSE]
    ELSE [x |-> x, panic |-> FALSE]

greedyFallback(c, f, s) ==
    LET g == greedyMatch(c, f, 0) IN
    IF g.panic THEN [s EXCEPT !.panic = TRUE]
    ELSE IF g.x > 0
    THEN [s EXCEPT !.ret = Partition(f.xoff + g.x, f.yoff + g.x, FALSE, FALSE, "greedy")]
    ELSE IF f.n > 0
    THEN [s EXCEPT !.ret = Partition(f.xoff + 1, f.yoff, FALSE, FALSE, "greedy")]
    ELSE [s EXCEPT !.ret = Partition(f.xoff, f.yoff + 1, FALSE, FALSE, "greedy")]

RECURSIVE dLoop(_, _, _, _)
dLoop(c, f, d, s) ==
    IF d > f.maxD
    THEN IF s.bestSnakeScore > 0
         THEN [s EXCEPT !.ret = snakeToPartition(s.bestSnake, f.xoff, f.yoff, "exhausted")]
         ELSE greedyFallback(c, f, s)
    ELSE IF f.useHeuristic /\ ~f.findMinimal /\ d > f.tooExpensive /\ s.bestSnakeScore > 0
    THEN [s EXCEPT !.ret = snakeToPartition(s.bestSnake, f.xoff, f.yoff, "tooExpensive")]
    ELSE LET kMin0 == Max(-d, -f.m)
             kMax == Min(d, f.n)
             kMin == IF (kMin0 + d) % 2 # 0 THEN kMin0 + 1 ELSE kMin0
             \* s2: the search state after the backward loop
             afterBackward(s2) ==
                 IF s2.panic \/ s2.ret.via # "none" THEN s2
                 ELSE IF d >= f.costLimit /\ s2.bestSnakeScore > 0
                 THEN [s2 EXCEPT !.ret = snakeToPartition(s2.bestSnake, f.xoff, f.yoff,
                                                         "costLimit")]
                 ELSE dLoop(c, f, d + 1, s2)
             \* s1: the search state after the forward loop
             afterForward(s1) ==
                 IF s1.panic \/ s1.ret.via # "none" THEN s1
                 ELSE afterBackward(backwardLoop(c, f, d, kMin, kMax, s1))
         IN afterForward(forwardLoop(c, f, d, kMin, kMax, s))

\* A findMiddleSnake whose d-loop ends at the cost limit instead of maxD.
snakeFrameLoopToCostLimit(c, xoff, xlim, yoff, ylim, findMinimal) ==
    LET n == xlim - xoff
        m == ylim - yoff
        maxD == GoDiv(n + m + 1, 2)
        costLimit == IF c.costLimit > 0 /\ ~findMinimal THEN Min(c.costLimit, maxD) ELSE maxD
        expensive == isqrt(n) + isqrt(m)
    IN [xoff |-> xoff, yoff |-> yoff, n |-> n, m |-> m,
        delta |-> n - m, deltaOdd |-> (n - m) % 2 # 0,
        offset |-> m + 1, diagLen |-> Len(c.xvec) + Len(c.yvec) + 3,
        maxD |-> costLimit, costLimit |-> costLimit,
        tooExpensive |-> IF c.useHeuristic /\ ~findMinimal /\ expensive < costLimit
                         THEN expensive ELSE costLimit,
        useHeuristic |-> c.useHeuristic, findMinimal |-> findMinimal]

\* The values findMiddleSnake computes before its d-loop.
snakeFrame(c, xoff, xlim, yoff, ylim, findMinimal) ==
    LET n == xlim - xoff
        m == ylim - yoff
        maxD == GoDiv(n + m + 1, 2)
        costLimit == IF c.costLimit > 0 /\ ~findMinimal THEN Min(c.costLimit, maxD) ELSE maxD
        expensive == isqrt(n) + isqrt(m)
    IN [xoff |-> xoff, yoff |-> yoff, n |-> n, m |-> m,
        delta |-> n - m, deltaOdd |-> (n - m) % 2 # 0,
        offset |-> m + 1, diagLen |-> Len(c.xvec) + Len(c.yvec) + 3,
        maxD |-> maxD, costLimit |-> costLimit,
        tooExpensive |-> IF c.useHeuristic /\ ~findMinimal /\ expensive < costLimit
                         THEN expensive ELSE costLimit,
        useHeuristic |-> c.useHeuristic, findMinimal |-> findMinimal]

\* The result: [ret, fdiag, bdiag, panic]; ret is the partition returned.
findMiddleSnake(c, xoff, xlim, yoff, ylim, findMinimal) ==
    LET s0 == [fdiag |-> c.fdiag, bdiag |-> c.bdiag, bestSnake |-> NoSnake,
               bestSnakeScore |-> 0, ret |-> NoPartition, panic |-> FALSE]
        search(f) ==
            LET i1 == f.offset + 1
                i2 == f.offset + f.delta - 1
            IN IF f.n = 0 THEN [s0 EXCEPT !.ret = Partition(xoff, ylim, TRUE, TRUE, "empty")]
               ELSE IF f.m = 0
               THEN [s0 EXCEPT !.ret = Partition(xlim, yoff, TRUE, TRUE, "empty")]
               ELSE IF i1 < 0 \/ i1 >= f.diagLen \/ i2 < 0 \/ i2 >= f.diagLen
               THEN [s0 EXCEPT !.panic = TRUE]
               ELSE dLoop(c, f, 0, [s0 EXCEPT !.fdiag[i1] = 0, !.bdiag[i2] = f.n])
    IN search(snakeFrame(c, xoff, xlim, yoff, ylim, findMinimal))

(***************************************************************************)
(* compareSeq.  One step makes the call on top of the stack: it trims the  *)
(* common prefix and suffix, marks the changes when one side is empty,     *)
(* and otherwise splits at the partition findMiddleSnake returns, leaving  *)
(* the two recursive calls on the stack (lower half first).                *)
(***************************************************************************)
RECURSIVE trimStart(_, _, _, _, _)
trimStart(c, xoff, xlim, yoff, ylim) ==
    IF xoff < xlim /\ yoff < ylim
    THEN LET e == equal(c, xoff, yoff)
         IN IF ~e.ok THEN [xoff |-> xoff, yoff |-> yoff, panic |-> TRUE]
            ELSE IF e.eq THEN trimStart(c, xoff + 1, xlim, yoff + 1, ylim)
            ELSE [xoff |-> xoff, yoff |-> yoff, panic |-> FALSE]
    ELSE [xoff |-> xoff, yoff |-> yoff, panic |-> FALSE]

RECURSIVE trimEnd(_, _, _, _, _)
trimEnd(c, xoff, xlim, yoff, ylim) ==
    IF xoff < xlim /\ yoff < ylim
    THEN LET e == equal(c, xlim - 1, ylim - 1)
         IN IF ~e.ok THEN [xlim |-> xlim, ylim |-> ylim, panic |-> TRUE]
            ELSE IF e.eq THEN trimEnd(c, xoff, xlim - 1, yoff, ylim - 1)
            ELSE [xlim |-> xlim, ylim |-> ylim, panic |-> FALSE]
    ELSE [xlim |-> xlim, ylim |-> ylim, panic |-> FALSE]

\* markDeleted / markInserted on one of the change arrays.
markRange(changes, lo, hi) ==
    [i \in DOMAIN changes |-> IF lo <= i /\ i < hi THEN TRUE ELSE changes[i]]

markPanics(changes, lo, hi) == \E i \in lo .. hi - 1 : i \notin DOMAIN changes

\* A markInserted that leaves the first element of the range unmarked.
markInsertedButFirst(c, yoff, ylim) ==
    IF markPanics(c.ychanges, yoff, ylim) THEN [c EXCEPT !.panic = TRUE]
    ELSE [c EXCEPT !.ychanges = markRange(c.ychanges, yoff + 1, ylim)]

markInserted(c, yoff, ylim) ==
    IF markPanics(c.ychanges, yoff, ylim) THEN [c EXCEPT !.panic = TRUE]
    ELSE [c EXCEPT !.ychanges = markRange(c.ychanges, yoff, ylim)]

\* A markDeleted that leaves the last element of the range unmarked.
markDeletedButLast(c, xoff, xlim) ==
    IF markPanics(c.xchanges, xoff, xlim) THEN [c EXCEPT !.panic = TRUE]
    ELSE [c EXCEPT !.xchanges = markRange(c.xchanges, xoff, xlim - 1)]

markDeleted(c, xoff, xlim) ==
    IF markPanics(c.xchanges, xoff, xlim) THEN [c EXCEPT !.panic = TRUE]
    ELSE [c EXCEPT !.xchanges = markRange(c.xchanges, xoff, xlim)]

\* What a compareSeq call did: its arguments, the rectangle left after
\* trimming, and the partition (via = "none" in a base case).
Call(fr, xoff, xlim, yoff, ylim, part) ==
    [kind |-> "call", args |-> Rect(fr.xoff, fr.xlim, fr.yoff, fr.ylim),
     findMinimal |-> fr.findMinimal, rect |-> Rect(xoff, xlim, yoff, ylim), part |-> part]

compareSeq(c) ==
    LET fr == Head(c.stack)
        rest == Tail(c.stack)
        t1 == trimStart(c, fr.xoff, fr.xlim, fr.yoff, fr.ylim)
        t2 == trimEnd(c, t1.xoff, fr.xlim, t1.yoff, fr.ylim)
        xoff == t1.xoff
        yoff == t1.yoff
        xlim == t2.xlim
        ylim == t2.ylim
        base == [c EXCEPT !.stack = rest,
                          !.last = Call(fr, xoff, xlim, yoff, ylim, NoPartition)]
        args == Rect(fr.xoff, fr.xlim, fr.yoff, fr.ylim)
        \* r: what findMiddleSnake returned
        split(r) ==
            IF r.panic THEN [c EXCEPT !.panic = TRUE]
            ELSE [c EXCEPT !.fdiag = r.fdiag, !.bdiag = r.bdiag,
                           !.last = Call(fr, xoff, xlim, yoff, ylim, r.ret),
                           !.stack = <<Frame(xoff, r.ret.xmid, yoff, r.ret.ymid,
                                             r.ret.loMinimal, args),
                                       Frame(r.ret.xmid, xlim, r.ret.ymid, ylim,
                                             r.ret.hiMinimal, args)>>
                                     \o rest]
    IN IF t1.panic \/ t2.panic THEN [c EXCEPT !.panic = TRUE]
       ELSE IF xoff = xlim THEN markInserted(base, yoff, ylim)
       ELSE IF yoff = ylim THEN markDeleted(base, xoff, xlim)
       ELSE split(findMiddleSnake(c, xoff, xlim, yoff, ylim, fr.findMinimal))

\* The top-level call compareSeq(0, len(a), 0, len(b), findMinimal), not yet made.
startCompare(c, findMinimal) ==
    [c EXCEPT !.stack = <<Frame(0, Len(c.xvec), 0, Len(c.yvec), findMinimal, <<>>)>>]

\* compareSeq run to its return (or to a panic).
RECURSIVE runCompareSeq(_)
runCompareSeq(c) == IF c.panic \/ c.stack = <<>> THEN c ELSE runCompareSeq(compareSeq(c))

(***************************************************************************)
(* buildOps: the scan over the change marks.  stuck is TRUE when an        *)
(* iteration of the outer loop advances neither i nor j (the Go loop       *)
(* would then never end).                                                  *)
(***************************************************************************)
RECURSIVE scanEqual(_, _, _)
scanEqual(c, i, j) ==
    IF i < Len(c.xvec) /\ j < Len(c.yvec) /\ ~c.xchanges[i] /\ ~c.ychanges[j]
    THEN scanEqual(c, i + 1, j + 1) ELSE i

RECURSIVE scanMarked(_, _, _)
scanMarked(changes, n, i) == IF i < n /\ changes[i] THEN scanMarked(changes, n, i + 1) ELSE i

RECURSIVE buildLoop(_, _, _, _)
buildLoop(c, i, j, ops) ==
    IF ~(i < Len(c.xvec) \/ j < Len(c.yvec)) THEN [ops |-> ops, stuck |-> FALSE]
    ELSE LET i1 == scanEqual(c, i, j)
             j1 == j + (i1 - i)
             ops1 == IF i1 > i THEN Append(ops, Op("Equal", i, i1, j, j1)) ELSE ops
             i2 == scanMarked(c.xchanges, Len(c.xvec), i1)
             ops2 == IF i2 > i1 THEN Append(ops1, Op("Delete", i1, i2, j1, j1)) ELSE ops1
             j2 == scanMarked(c.ychanges, Len(c.yvec), j1)
             ops3 == IF j2 > j1 THEN Append(ops2, Op("Insert", i2, i2, j1, j2)) ELSE ops2
         IN IF i2 = i /\ j2 = j THEN [ops |-> ops, stuck |-> TRUE]
            ELSE buildLoop(c, i2, j2, ops3)

buildOps(c) == buildLoop(c, 0, 0, <<>>)

(***************************************************************************)
(* Preprocessing: filterConfusingElements and filterSequence.  A class     *)
(* array is a sequence of "keep" / "discard" / "provisional"; toOrig holds *)
(* 0-based original indices.                                               *)
(***************************************************************************)
Freq(elems, h) == Cardinality({i \in 1 .. Len(elems) : Hash(elems[i]) = h})

threshold(a, b) == Max(minThreshold, 5 + (Len(a) + Len(b)) \div 64)

\* The class of an element of one sequence, given the other sequence.
classify(e, a, b, other) ==
    IF Freq(other, Hash(e)) = 0 THEN "discard"
    ELSE IF Freq(a, Hash(e)) + Freq(b, Hash(e)) > threshold(a, b) THEN "provisional"
    ELSE "keep"

classes(elems, a, b, other) == [i \in 1 .. Len(elems) |-> classify(elems[i], a, b, other)]

keepCount(cls) == Cardinality({i \in 1 .. Len(cls) : cls[i] = "keep"})

\* An emission rule that keeps every provisional element.
emittedAllProvisional(cls, i) == cls[i] \in {"keep", "provisional"}

\* Whether filterSequence emits the element at 1-based position i.
emitted(cls, i) ==
    \/ cls[i] = "keep"
    \/ /\ cls[i] = "provisional"
       /\ \/ (i > 1 /\ cls[i - 1] = "keep")
          \/ (i < Len(cls) /\ cls[i + 1] = "keep")

RECURSIVE filterLoop(_, _, _, _)
filterLoop(elems, cls, i, acc) ==
    IF i > Len(cls) THEN acc
    ELSE IF emitted(cls, i)
    THEN filterLoop(elems, cls, i + 1,
                    [result |-> Append(acc.result, elems[i]), toOrig |-> Append(acc.toOrig, i - 1)])
    ELSE filterLoop(elems, cls, i + 1, acc)

filterSequence(elems, cls) == filterLoop(elems, cls, 1, [result |-> <<>>, toOrig |-> <<>>])

NoMapping == [nil |-> TRUE, aToOrig |-> <<>>, bToOrig |-> <<>>, origN |-> 0, origM |-> 0]

\* The result: [a, b, mapping].
filterConfusingElements(a, b) ==
    LET unchanged == [a |-> a, b |-> b, mapping |-> NoMapping]
        aClass == classes(a, a, b, b)
        bClass == classes(b, a, b, a)
        fa == filterSequence(a, aClass)
        fb == filterSequence(b, bClass)
    IN IF Len(a) = 0 \/ Len(b) = 0 THEN unchanged
       ELSE IF keepCount(aClass) + keepCount(bClass) > ((Len(a) + Len(b)) * 3) \div 4 THEN unchanged
       ELSE IF Len(fa.result) = 0 /\ Len(fb.result) = 0 THEN unchanged
       ELSE [a |-> fa.result, b |-> fb.result,
             mapping |-> [nil |-> FALSE, aToOrig |-> fa.toOrig, bToOrig |-> fb.toOrig,
                          origN |-> Len(a), origM |-> Len(b)]]

(***************************************************************************)
(* mapOps: the raw operations on the filtered sequences expanded element   *)
(* by element onto the original indices.  st = [result, aPos, bPos].       *)
(***************************************************************************)
\* A mapEqual that emits no Delete / Insert for the filtered-out elements
\* in front of a matched pair.
RECURSIVE mapEqualWithoutGaps(_, _, _, _)
mapEqualWithoutGaps(m, op, i, st) ==
    IF i >= op.AEnd THEN st
    ELSE LET j == op.BStart + (i - op.AStart)
             origAIdx == m.aToOrig[i + 1]
             origBIdx == m.bToOrig[j + 1]
             r3 == Append(st.result,
                          Op("Equal", origAIdx, origAIdx + 1, origBIdx, origBIdx + 1))
         IN mapEqualWithoutGaps(m, op, i + 1,
                                [result |-> r3, aPos |-> origAIdx + 1, bPos |-> origBIdx + 1])

RECURSIVE mapEqual(_, _, _, _)
mapEqual(m, op, i, st) ==
    IF i >= op.AEnd THEN st
    ELSE LET j == op.BStart + (i - op.AStart)
             origAIdx == m.aToOrig[i + 1]
             origBIdx == m.bToOrig[j + 1]
             r1 == IF origAIdx > st.aPos
                   THEN Append(st.result, Op("Delete", st.aPos, origAIdx, st.bPos, st.bPos))
                   ELSE st.result
             aPos1 == IF origAIdx > st.aPos THEN origAIdx ELSE st.aPos
             r2 == IF origBIdx > st.bPos
                   THEN Append(r1, Op("Insert", aPos1, aPos1, st.bPos, origBIdx))
                   ELSE r1
             r3 == Append(r2, Op("Equal", origAIdx, origAIdx + 1, origBIdx, origBIdx + 1))
         IN mapEqual(m, op, i + 1, [result |-> r3, aPos |-> origAIdx + 1, bPos |-> origBIdx + 1])

RECURSIVE mapDelete(_, _, _, _)
mapDelete(m, op, i, st) ==
    IF i >= op.AEnd THEN st
    ELSE LET origAIdx == m.aToOrig[i + 1]
             r1 == IF origAIdx > st.aPos
                   THEN Append(st.result, Op("Delete", st.aPos, origAIdx, st.bPos, st.bPos))
                   ELSE st.result
             r2 == Append(r1, Op("Delete", origAIdx, origAIdx + 1, st.bPos, st.bPos))
         IN mapDelete(m, op, i + 1, [st EXCEPT !.result = r2, !.aPos = origAIdx + 1])

RECURSIVE mapInsert(_, _, _, _)
mapInsert(m, op, i, st) ==
    IF i >= op.BEnd THEN st
    ELSE LET origBIdx == m.bToOrig[i + 1]
             r1 == IF origBIdx > st.bPos
                   THEN Append(st.result, Op("Insert", st.aPos, st.aPos, st.bPos, origBIdx))
                   ELSE st.result
             r2 == Append(r1, Op("Insert", st.aPos, st.aPos, origBIdx, origBIdx + 1))
         IN mapInsert(m, op, i + 1, [st EXCEPT !.result = r2, !.bPos = origBIdx + 1])

RECURSIVE mapLoop(_, _, _, _)
mapLoop(m, ops, k, st) ==
    IF k > Len(ops) THEN st
    ELSE LET op == ops[k]
         IN mapLoop(m, ops, k + 1,
                    IF op.Type = "Equal" THEN mapEqual(m, op, op.AStart, st)
                    ELSE IF op.Type = "Delete" THEN mapDelete(m, op, op.AStart, st)
                    ELSE mapInsert(m, op, op.BStart, st))

mapOps(m, ops) ==
    IF m.nil THEN ops
    ELSE LET \* st: the result and positions after the loop over ops
             trailing(st) ==
                 LET r1 == IF st.aPos < m.origN
                           THEN Append(st.result,
                                       Op("Delete", st.aPos, m.origN, st.bPos, st.bPos))
                           ELSE st.result
                 IN IF st.bPos < m.origM
                    THEN Append(r1, Op("Insert", m.origN, m.origN, st.bPos, m.origM))
                    ELSE r1
         IN mergeOps(trailing(mapLoop(m, ops, 1, [result |-> <<>>, aPos |-> 0, bPos |-> 0])))

(***************************************************************************)
(* Postprocessing: shiftBoundaries.  The string predicates are given by    *)
(* the strings of the model that satisfy them (strings.TrimSpace and the   *)
(* first / last byte cannot be computed on TLA+ strings).                  *)
(***************************************************************************)
BlankStrings == {"", " "}

EndPunctuationStrings == {"end.", "why?"}

StartPunctuationStrings == {"-item", "#head"}

isBlank(e) == e.kind = "StringElement" /\ e.val \in BlankStrings

endsWithPunctuation(e) == e.kind = "StringElement" /\ e.val \in EndPunctuationStrings

startsWithPunctuation(e) == e.kind = "StringElement" /\ e.val \in StartPunctuationStrings

\* The result: [score, panic]; elems[start-1] is read whenever start > 0.
scoreBoundary(start, end, elems) ==
    LET n == Len(elems)
        before == elems[start]
        after == elems[end + 1]
    IN IF start > 0 /\ start - 1 >= n THEN [score |-> 0, panic |-> TRUE]
       ELSE [score |->
               (IF start > 0 /\ isBlank(before) THEN blankLineBonus ELSE 0)
             + (IF end < n /\ end >= 0 /\ isBlank(after) THEN blankLineBonus ELSE 0)
             + (IF start = 0 THEN startOfLineBonus ELSE 0)
             + (IF end = n THEN endOfLineBonus ELSE 0)
             + (IF start > 0 /\ endsWithPunctuation(before) THEN punctuationBonus ELSE 0)
             + (IF end < n /\ end >= 0 /\ startsWithPunctuation(after) THEN punctuationBonus ELSE 0),
             panic |-> end < 0]

InSlice(elems, i) == 0 <= i /\ i < Len(elems)

\* The forward shifting potential of the range [start, end).
RECURSIVE maxShiftForward(_, _, _, _, _)
maxShiftForward(start, end, elems, i, acc) ==
    IF end + i < Len(elems)
    THEN IF ~InSlice(elems, start + i) \/ ~InSlice(elems, end + i) THEN [max |-> acc, panic |-> TRUE]
         ELSE IF ~Equal(elems[start + i + 1], elems[end + i + 1]) THEN [max |-> acc, panic |-> FALSE]
         ELSE maxShiftForward(start, end, elems, i + 1, i + 1)
    ELSE [max |-> acc, panic |-> FALSE]

RECURSIVE maxShiftBackward(_, _, _, _, _)
maxShiftBackward(start, end, elems, i, acc) ==
    IF start - i - 1 >= 0
    THEN IF ~InSlice(elems, end - i - 1) \/ ~InSlice(elems, start - i - 1) THEN [max |-> acc, panic |-> TRUE]
         ELSE IF ~Equal(elems[end - i], elems[start - i]) THEN [max |-> acc, panic |-> FALSE]
         ELSE maxShiftBackward(start, end, elems, i + 1, i + 1)
    ELSE [max |-> acc, panic |-> FALSE]

\* Scoring loops in which a later shift with an equal score wins.
RECURSIVE tryShiftsTiesMove(_, _, _, _, _, _, _)
tryShiftsTiesMove(start, end, elems, dir, shift, maxShift, st) ==
    IF shift > maxShift \/ st.panic THEN st
    ELSE LET sc == scoreBoundary(start + dir * shift, end + dir * shift, elems)
         IN tryShiftsTiesMove(start, end, elems, dir, shift + 1, maxShift,
                              IF sc.panic THEN [st EXCEPT !.panic = TRUE]
                              ELSE IF sc.score >= st.bestScore
                              THEN [st EXCEPT !.bestScore = sc.score, !.bestShift = dir * shift]
                              ELSE st)

\* The scoring loops: st = [bestShift, bestScore, panic]; dir is 1 or -1.
RECURSIVE tryShifts(_, _, _, _, _, _, _)
tryShifts(start, end, elems, dir, shift, maxShift, st) ==
    IF shift > maxShift \/ st.panic THEN st
    ELSE LET sc == scoreBoundary(start + dir * shift, end + dir * shift, elems)
         IN tryShifts(start, end, elems, dir, shift + 1, maxShift,
                      IF sc.panic THEN [st EXCEPT !.panic = TRUE]
                      ELSE IF sc.score > st.bestScore
                      THEN [st EXCEPT !.bestScore = sc.score, !.bestShift = dir * shift]
                      ELSE st)

\* The shift shiftDelete / shiftInsert choose for the range [start, end) of
\* elems: [bestShift, panic].
chooseShift(start, end, elems) ==
    LET fw == maxShiftForward(start, end, elems, 0, 0)
        bw == maxShiftBackward(start, end, elems, 0, 0)
        s0 == scoreBoundary(start, end, elems)
        st0 == [bestShift |-> 0, bestScore |-> s0.score, panic |-> s0.panic]
        st1 == tryShifts(start, end, elems, 1, 1, fw.max, st0)
        chosen(st2) == [bestShift |-> st2.bestShift, panic |-> st2.panic]
    IN IF end - start = 0 THEN [bestShift |-> 0, panic |-> FALSE]
       ELSE IF fw.panic \/ bw.panic THEN [bestShift |-> 0, panic |-> TRUE]
       ELSE IF fw.max = 0 /\ bw.max = 0 THEN [bestShift |-> 0, panic |-> FALSE]
       ELSE chosen(tryShifts(start, end, elems, -1, 1, bw.max, st1))

shiftDelete(op, a) ==
    LET moved(ch) ==
            [op |-> [op EXCEPT !.AStart = op.AStart + ch.bestShift,
                               !.AEnd = op.AEnd + ch.bestShift],
             panic |-> ch.panic]
    IN moved(chooseShift(op.AStart, op.AEnd, a))

shiftInsert(op, b) ==
    LET moved(ch) ==
            [op |-> [op EXCEPT !.BStart = op.BStart + ch.bestShift,
                               !.BEnd = op.BEnd + ch.bestShift],
             panic |-> ch.panic]
    IN moved(chooseShift(op.BStart, op.BEnd, b))

shiftOp(op, a, b) ==
    IF op.Type = "Delete" THEN shiftDelete(op, a)
    ELSE IF op.Type = "Insert" THEN shiftInsert(op, b)
    ELSE [op |-> op, panic |-> FALSE]

\* optimizeBoundaries, tryShiftEqualBoundary and tryShiftChangeBoundary return
\* their arguments unchanged.
optimizeBoundaries(ops, a, b) == ops

\* The result: [ops, panic].
shiftBoundaries(ops, a, b) ==
    LET \* shifted: what shiftOp returned for each op
        collect(shifted) ==
            IF \E i \in 1 .. Len(ops) : shifted[i].panic THEN [ops |-> ops, panic |-> TRUE]
            ELSE [ops |-> optimizeBoundaries(
                              mergeAdjacentOps([i \in 1 .. Len(ops) |-> shifted[i].op]), a, b),
                  panic |-> FALSE]
    IN IF Len(ops) = 0 THEN [ops |-> ops, panic |-> FALSE]
       ELSE collect([i \in 1 .. Len(ops) |-> shiftOp(ops[i], a, b)])

(***************************************************************************)
(* The float64 arithmetic of histogramDiffRecursive.  All ratios of one    *)
(* call have the denominator len(a)*len(b), so a value is held as its      *)
(* numerator over that denominator (num) together with a rank: float64     *)
(* rounding (on divisions by 3 and 5) separates some values that are equal *)
(* as rationals, and the rank orders the float64 values inside one class   *)
(* of equal rationals.  Distinct rationals with these denominators differ  *)
(* by far more than the rounding error, so the float64 order is the        *)
(* lexicographic order on (num, rank).  The tables list, for slices of up  *)
(* to 5 elements, the values of rank 1 and 2 as <<len(a), len(b), aIdx, i>>*)
(* (imbalances |aIdx/len(a) - i/len(b)|) and <<len(a), len(b), freq, aIdx, *)
(* i>> (scores freq*(1+2*imbalance)); every other value has rank 0.        *)
(***************************************************************************)
imbalanceRankOne ==
    {<<2, 3, 1, 1>>, <<2, 5, 1, 4>>, <<3, 2, 1, 1>>, <<3, 4, 1, 2>>,
     <<3, 4, 1, 3>>, <<3, 4, 2, 3>>, <<3, 5, 1, 2>>, <<3, 5, 1, 3>>,
     <<3, 5, 1, 4>>, <<3, 5, 2, 4>>, <<4, 3, 2, 1>>, <<4, 3, 3, 1>>,
     <<4, 3, 3, 2>>, <<4, 5, 2, 4>>, <<4, 5, 3, 4>>, <<5, 2, 4, 1>>,
     <<5, 3, 2, 1>>, <<5, 3, 3, 1>>, <<5, 3, 4, 1>>, <<5, 3, 4, 2>>,
     <<5, 4, 4, 2>>, <<5, 4, 4, 3>>, <<5, 5, 0, 1>>, <<5, 5, 0, 2>>,
     <<5, 5, 1, 0>>, <<5, 5, 1, 2>>, <<5, 5, 1, 4>>, <<5, 5, 2, 0>>,
     <<5, 5, 2, 1>>, <<5, 5, 2, 4>>, <<5, 5, 4, 1>>, <<5, 5, 4, 2>>}

imbalanceRankTwo ==
    {<<5, 5, 3, 4>>, <<5, 5, 4, 3>>}

scoreRankOne ==
    {<<2, 3, 1, 1, 1>>, <<2, 3, 2, 1, 1>>, <<3, 2, 1, 1, 1>>,
     <<3, 2, 2, 1, 1>>, <<3, 4, 1, 1, 2>>, <<3, 4, 1, 1, 3>>,
     <<3, 4, 1, 2, 3>>, <<3, 4, 2, 1, 2>>, <<3, 4, 2, 1, 3>>,
     <<3, 4, 2, 2, 3>>, <<3, 4, 3, 2, 3>>, <<3, 5, 1, 1, 4>>,
     <<3, 5, 1, 2, 4>>, <<3, 5, 2, 1, 4>>, <<3, 5, 2, 2, 4>>,
     <<3, 5, 3, 1, 4>>, <<3, 5, 3, 2, 4>>, <<4, 3, 1, 2, 1>>,
     <<4, 3, 1, 3, 1>>, <<4, 3, 1, 3, 2>>, <<4, 3, 2, 2, 1>>,
     <<4, 3, 2, 3, 1>>, <<4, 3, 2, 3, 2>>, <<4, 3, 3, 3, 2>>,
     <<4, 3, 4, 2, 1>>, <<4, 3, 4, 3, 1>>, <<4, 3, 4, 3, 2>>,
     <<4, 5, 2, 0, 2>>, <<4, 5, 2, 1, 4>>, <<4, 5, 2, 3, 1>>,
     <<4, 5, 3, 2, 1>>, <<4, 5, 3, 2, 4>>, <<5, 2, 2, 2, 0>>,
     <<5, 2, 3, 1, 1>>, <<5, 2, 3, 4, 1>>, <<5, 3, 1, 4, 1>>,
     <<5, 3, 1, 4, 2>>, <<5, 3, 2, 4, 1>>, <<5, 3, 2, 4, 2>>,
     <<5, 3, 3, 4, 1>>, <<5, 3, 3, 4, 2>>, <<5, 3, 4, 4, 1>>,
     <<5, 3, 4, 4, 2>>, <<5, 3, 5, 1, 0>>, <<5, 3, 5, 4, 1>>,
     <<5, 3, 5, 4, 2>>, <<5, 4, 2, 1, 3>>, <<5, 4, 2, 2, 0>>,
     <<5, 4, 2, 4, 1>>, <<5, 4, 3, 1, 2>>, <<5, 4, 3, 4, 2>>,
     <<5, 5, 1, 0, 2>>, <<5, 5, 1, 2, 0>>, <<5, 5, 1, 2, 4>>,
     <<5, 5, 1, 3, 4>>, <<5, 5, 1, 4, 2>>, <<5, 5, 1, 4, 3>>,
     <<5, 5, 2, 0, 2>>, <<5, 5, 2, 2, 0>>, <<5, 5, 2, 2, 4>>,
     <<5, 5, 2, 3, 4>>, <<5, 5, 2, 4, 2>>, <<5, 5, 2, 4, 3>>,
     <<5, 5, 3, 0, 2>>, <<5, 5, 3, 2, 0>>, <<5, 5, 3, 2, 4>>,
     <<5, 5, 3, 3, 4>>, <<5, 5, 3, 4, 2>>, <<5, 5, 3, 4, 3>>,
     <<5, 5, 4, 0, 2>>, <<5, 5, 4, 2, 0>>, <<5, 5, 4, 2, 4>>,
     <<5, 5, 4, 3, 4>>, <<5, 5, 4, 4, 2>>, <<5, 5, 4, 4, 3>>,
     <<5, 5, 5, 3, 4>>, <<5, 5, 5, 4, 3>>}

imbalanceRank(la, lb, aIdx, i) ==
    IF <<la, lb, aIdx, i>> \in imbalanceRankTwo THEN 2
    ELSE IF <<la, lb, aIdx, i>> \in imbalanceRankOne THEN 1 ELSE 0

scoreRank(la, lb, freq, aIdx, i) == IF <<la, lb, freq, aIdx, i>> \in scoreRankOne THEN 1 ELSE 0

floatLess(x, y) == x.num < y.num \/ (x.num = y.num /\ x.rank < y.rank)

\* The constant 2.0 both search loops start from.
impossibleImbalance(la, lb) == [num |-> 2 * la * lb, rank |-> 0, aIdx |-> -1, i |-> -1]

\* |float64(aIdx)/float64(len(a)) - float64(i)/float64(len(b))|
imbalance(la, lb, aIdx, i) ==
    [num |-> abs(aIdx * lb - i * la), rank |-> imbalanceRank(la, lb, aIdx, i),
     aIdx |-> aIdx, i |-> i]

\* float64(freq) * (1.0 + imb*2)
anchorScore(la, lb, freq, imb) ==
    [num |-> freq * (la * lb + 2 * imb.num), rank |-> scoreRank(la, lb, freq, imb.aIdx, imb.i)]

\* float64(maxChainLength+1) * 3
initialBestScore(la, lb) == [num |-> (maxChainLength + 1) * 3 * la * lb, rank |-> 0]

(***************************************************************************)
(* Options.  The options struct of diffx.go has no anchorElimination       *)
(* field although histogram.go and anchor.go use it; its default is taken  *)
(* from the documentation of WithAnchorElimination ("Default: true").      *)
(***************************************************************************)
defaultOptions ==
    [useHeuristic |-> TRUE, forceMinimal |-> FALSE, costLimit |-> 0,
     preprocessing |-> TRUE, postprocessing |-> TRUE]

anchorEliminationDefault == TRUE

WithHeuristic(o, enabled) == [o EXCEPT !.useHeuristic = enabled]

WithMinimal(o, minimal) ==
    [o EXCEPT !.forceMinimal = minimal,
              !.useHeuristic = IF minimal THEN FALSE ELSE o.useHeuristic]

WithCostLimit(o, n) == [o EXCEPT !.costLimit = n]

WithPreprocessing(o, enabled) == [o EXCEPT !.preprocessing = enabled]

WithPostprocessing(o, enabled) == [o EXCEPT !.postprocessing = enabled]

(***************************************************************************)
(* The histogram driver.  A result is [ops, err] with err = "none",        *)
(* "panic" (a Go run-time panic) or "hang" (a loop that cannot end).       *)
(***************************************************************************)
defaultHistogramOptions ==
    [maxChainLength |-> maxChainLength, fallbackToMyers |-> TRUE, filterStopwords |-> TRUE]

stopwords ==
    {"a", "an", "the", "in", "on", "to", "for", "of", "with", "and", "or", "is", "are", "be"}

\* A filter that takes no element for a stopword.
isStopwordNever(e) == FALSE

isStopword(e) == e.kind = "StringElement" /\ e.val \in stopwords

Result(ops) == [ops |-> ops, err |-> "none"]

Failure(err) == [ops |-> <<>>, err |-> err]

offsetOps(ops, aOffset, bOffset) ==
    [k \in 1 .. Len(ops) |->
        [ops[k] EXCEPT !.AStart = @ + aOffset, !.AEnd = @ + aOffset,
                       !.BStart = @ + bOffset, !.BEnd = @ + bOffset]]

myersFallback(a, b, aOffset, bOffset) ==
    LET o == [defaultOptions EXCEPT !.preprocessing = FALSE, !.postprocessing = FALSE]
        \* built: what ctx.buildOps() returned
        adjust(built) ==
            IF built.stuck THEN Failure("hang")
            ELSE Result(offsetOps(built.ops, aOffset, bOffset))
        \* c: the context after ctx.compareSeq(0, len(a), 0, len(b), false)
        build(c) == IF c.panic THEN Failure("panic") ELSE adjust(buildOps(c))
    IN build(runCompareSeq(startCompare(newDiffContext(a, b, o), FALSE)))

\* aIndices[h]: the 0-based indices of a whose element hashes to h, ascending.
aIndices(a, h) == SelectSeq([k \in 1 .. Len(a) |-> k - 1], LAMBDA idx : Hash(a[idx + 1]) = h)

\* A search that takes a hash match for a match, without the Equal check.
RECURSIVE closestMatchByHashOnly(_, _, _, _, _, _, _)
closestMatchByHashOnly(a, lb, e, i, idxs, k, best) ==
    IF k > Len(idxs) THEN best
    ELSE IF floatLess(imbalance(Len(a), lb, idxs[k], i), best)
    THEN closestMatchByHashOnly(a, lb, e, i, idxs, k + 1, imbalance(Len(a), lb, idxs[k], i))
    ELSE closestMatchByHashOnly(a, lb, e, i, idxs, k + 1, best)

\* The loop over aIndices[h] of both searches: the first index (in list
\* order) whose verified imbalance is the least; best = impossibleImbalance
\* when no element of the list is Equal to e.
RECURSIVE closestMatch(_, _, _, _, _, _, _)
closestMatch(a, lb, e, i, idxs, k, best) ==
    IF k > Len(idxs) THEN best
    ELSE LET aIdx == idxs[k]
             imb == imbalance(Len(a), lb, aIdx, i)
         IN IF ~Equal(a[aIdx + 1], e) THEN closestMatch(a, lb, e, i, idxs, k + 1, best)
            ELSE IF floatLess(imb, best) THEN closestMatch(a, lb, e, i, idxs, k + 1, imb)
            ELSE closestMatch(a, lb, e, i, idxs, k + 1, best)

\* The loop over b that chooses the anchor: best = [bestIdx, bestScore, bestHash].
RECURSIVE findAnchor(_, _, _, _, _)
findAnchor(a, b, opts, i, best) ==
    IF i >= Len(b) THEN best
    ELSE LET e == b[i + 1]
             h == Hash(e)
             freq == Freq(a, h)
             pos == closestMatch(a, Len(b), e, i, aIndices(a, h), 1,
                                 impossibleImbalance(Len(a), Len(b)))
             score == anchorScore(Len(a), Len(b), freq, pos)
         IN IF opts.filterStopwords /\ isStopword(e) THEN findAnchor(a, b, opts, i + 1, best)
            ELSE IF freq <= 0 \/ freq > opts.maxChainLength THEN findAnchor(a, b, opts, i + 1, best)
            ELSE IF 2 * pos.num > 3 * Len(a) * Len(b) THEN findAnchor(a, b, opts, i + 1, best)
            ELSE IF floatLess(score, best.bestScore)
            THEN findAnchor(a, b, opts, i + 1, [bestIdx |-> i, bestScore |-> score, bestHash |-> h])
            ELSE findAnchor(a, b, opts, i + 1, best)

RECURSIVE extendBackward(_, _, _, _)
extendBackward(a, b, sa, sb) ==
    IF sa > 0 /\ sb > 0 /\ Equal(a[sa], b[sb]) THEN extendBackward(a, b, sa - 1, sb - 1)
    ELSE [a |-> sa, b |-> sb]

RECURSIVE extendForward(_, _, _, _)
extendForward(a, b, ea, eb) ==
    IF ea < Len(a) /\ eb < Len(b) /\ Equal(a[ea + 1], b[eb + 1]) THEN extendForward(a, b, ea + 1, eb + 1)
    ELSE [a |-> ea, b |-> eb]

noAnchor(a, b, aOffset, bOffset, opts) ==
    IF opts.fallbackToMyers THEN myersFallback(a, b, aOffset, bOffset)
    ELSE Result(<<Op("Delete", aOffset, aOffset + Len(a), bOffset, bOffset),
                  Op("Insert", aOffset + Len(a), aOffset + Len(a), bOffset, bOffset + Len(b))>>)

RECURSIVE histogramDiffRecursive(_, _, _, _, _)
histogramDiffRecursive(a, b, aOffset, bOffset, opts) ==
    IF Len(a) = 0 /\ Len(b) = 0 THEN Result(<<>>)
    ELSE IF Len(a) = 0 THEN Result(<<Op("Insert", aOffset, aOffset, bOffset, bOffset + Len(b))>>)
    ELSE IF Len(b) = 0 THEN Result(<<Op("Delete", aOffset, aOffset + Len(a), bOffset, bOffset)>>)
    ELSE
      LET \* start, stop: the matching region after extending it both ways
          around(start, stop) ==
              LET before == IF start.a > 0 \/ start.b > 0
                            THEN histogramDiffRecursive(SubSeq(a, 1, start.a),
                                                        SubSeq(b, 1, start.b),
                                                        aOffset, bOffset, opts)
                            ELSE Result(<<>>)
                  after == IF stop.a < Len(a) \/ stop.b < Len(b)
                           THEN histogramDiffRecursive(SubSeq(a, stop.a + 1, Len(a)),
                                                       SubSeq(b, stop.b + 1, Len(b)),
                                                       aOffset + stop.a, bOffset + stop.b, opts)
                           ELSE Result(<<>>)
                  matching == Op("Equal", aOffset + start.a, aOffset + stop.a,
                                          bOffset + start.b, bOffset + stop.b)
              IN IF before.err # "none" THEN before
                 ELSE IF after.err # "none" THEN after
                 ELSE Result(before.ops \o <<matching>> \o after.ops)
          \* bestIdx, aMatchIdx after both search loops; aMatchIdx is -1 too
          \* when bestIdx is (the code returns the same fallback in both cases)
          split(bestIdx, aMatchIdx) ==
              IF bestIdx = -1 \/ aMatchIdx = -1 THEN noAnchor(a, b, aOffset, bOffset, opts)
              ELSE around(extendBackward(a, b, aMatchIdx, bestIdx),
                          extendForward(a, b, aMatchIdx + 1, bestIdx + 1))
          \* best: the anchor the loop over b chose
          match(best) ==
              split(best.bestIdx,
                    IF best.bestIdx = -1 THEN -1
                    ELSE closestMatch(a, Len(b), b[best.bestIdx + 1], best.bestIdx,
                                      aIndices(a, best.bestHash), 1,
                                      impossibleImbalance(Len(a), Len(b))).aIdx)
      IN match(findAnchor(a, b, opts, 0,
                          [bestIdx |-> -1, bestScore |-> initialBestScore(Len(a), Len(b)),
                           bestHash |-> ""]))

RECURSIVE prefixLength(_, _, _)
prefixLength(a, b, n) ==
    IF n < Len(a) /\ n < Len(b) /\ Equal(a[n + 1], b[n + 1]) THEN prefixLength(a, b, n + 1) ELSE n

RECURSIVE suffixLength(_, _, _, _)
suffixLength(a, b, prefixLen, n) ==
    IF n < Len(a) - prefixLen /\ n < Len(b) - prefixLen /\ Equal(a[Len(a) - n], b[Len(b) - n])
    THEN suffixLength(a, b, prefixLen, n + 1) ELSE n

histogramDiff(a, b, opts) ==
    LET trimmed(prefixLen, suffixLen) ==
            LET head == IF prefixLen > 0
                        THEN <<Op("Equal", 0, prefixLen, 0, prefixLen)>> ELSE <<>>
                tail == IF suffixLen > 0
                        THEN <<Op("Equal", Len(a) - suffixLen, Len(a),
                                           Len(b) - suffixLen, Len(b))>>
                        ELSE <<>>
                \* middle: what histogramDiffRecursive returned for the middle section
                wrap(middle) ==
                    IF middle.err # "none" THEN middle
                    ELSE Result(mergeAdjacentOps(head \o middle.ops \o tail))
            IN IF prefixLen + suffixLen >= Len(a) /\ prefixLen + suffixLen >= Len(b)
               THEN Result(<<Op("Equal", 0, Len(a), 0, Len(b))>>)
               ELSE wrap(histogramDiffRecursive(SubSeq(a, prefixLen + 1, Len(a) - suffixLen),
                                                SubSeq(b, prefixLen + 1, Len(b) - suffixLen),
                                                prefixLen, prefixLen, opts))
        suffixFrom(prefixLen) == trimmed(prefixLen, suffixLength(a, b, prefixLen, 0))
    IN IF Len(a) = 0 /\ Len(b) = 0 THEN Result(<<>>)
       ELSE IF Len(a) = 0 THEN Result(<<Op("Insert", 0, 0, 0, Len(b))>>)
       ELSE IF Len(b) = 0 THEN Result(<<Op("Delete", 0, Len(a), 0, 0)>>)
       ELSE suffixFrom(prefixLength(a, b, 0))

eliminateWeakAnchors(ops, a, b) == IF Len(ops) < 2 THEN ops ELSE mergeAdjacentOps(ops)

(***************************************************************************)
(* The two drivers as pure functions of their arguments: [ops, err].       *)
(***************************************************************************)
\* Trivial cases that answer an empty A with a Delete and an empty B with an Insert.
trivialCaseSwapped(a, b) ==
    IF Len(a) = 0 /\ Len(b) = 0 THEN [found |-> TRUE, ops |-> <<>>]
    ELSE IF Len(a) = 0 THEN [found |-> TRUE, ops |-> <<Op("Delete", 0, 0, 0, Len(b))>>]
    ELSE IF Len(b) = 0 THEN [found |-> TRUE, ops |-> <<Op("Insert", 0, Len(a), 0, 0)>>]
    ELSE [found |-> FALSE, ops |-> <<>>]

\* The trivial cases of DiffElements; found is FALSE when neither input is empty.
trivialCase(a, b) ==
    IF Len(a) = 0 /\ Len(b) = 0 THEN [found |-> TRUE, ops |-> <<>>]
    ELSE IF Len(a) = 0 THEN [found |-> TRUE, ops |-> <<Op("Insert", 0, 0, 0, Len(b))>>]
    ELSE IF Len(b) = 0 THEN [found |-> TRUE, ops |-> <<Op("Delete", 0, Len(a), 0, 0)>>]
    ELSE [found |-> FALSE, ops |-> <<>>]

\* The preprocessing block of DiffElements: the new values of a, b, mapping and ctx.
preprocess(a, b, o) ==
    LET \* f: the sequences and mapping after the preprocessing block
        recreate(f) ==
            [a |-> f.a, b |-> f.b, mapping |-> f.mapping,
             ctx |-> IF o.preprocessing /\ (Len(f.a) > 0 \/ Len(f.b) > 0)
                     THEN newDiffContext(f.a, f.b, o) ELSE newDiffContext(a, b, o)]
    IN recreate(IF o.preprocessing THEN filterConfusingElements(a, b)
                ELSE [a |-> a, b |-> b, mapping |-> NoMapping])

\* A postprocessing block that shifts only when the heuristic is on.
postprocessWhenHeuristic(ops, a, b, o) ==
    LET shifted(r) == IF r.panic THEN Failure("panic") ELSE Result(r.ops)
    IN IF ~o.postprocessing \/ ~o.useHeuristic THEN Result(ops)
       ELSE shifted(shiftBoundaries(ops, a, b))

\* The postprocessing block of both drivers.
postprocess(ops, a, b, o) ==
    LET shifted(r) == IF r.panic THEN Failure("panic") ELSE Result(r.ops)
    IN IF ~o.postprocessing THEN Result(ops) ELSE shifted(shiftBoundaries(ops, a, b))

DiffElements(a, b, o) ==
    LET p == preprocess(a, b, o)
        c == IF Len(p.a) > 0 \/ Len(p.b) > 0
             THEN runCompareSeq(startCompare(p.ctx, o.forceMinimal)) ELSE p.ctx
        built == buildOps(c)
    IN IF trivialCase(a, b).found THEN Result(trivialCase(a, b).ops)
       ELSE IF c.panic THEN Failure("panic")
       ELSE IF built.stuck THEN Failure("hang")
       ELSE postprocess(mapOps(p.mapping, built.ops), p.a, p.b, o)

DiffElementsHistogram(a, b, o) ==
    LET h == histogramDiff(a, b, defaultHistogramOptions)
    IN IF h.err # "none" THEN h
       ELSE postprocess(IF o.anchorElimination THEN eliminateWeakAnchors(h.ops, a, b) ELSE h.ops,
                        a, b, o)

(***************************************************************************)
(* The state machine: one call of DiffElements (driver = "myers") or of    *)
(* DiffElementsHistogram (driver = "histogram") on inputs origA, origB     *)
(* with options o.  a, b, mapping, ctx and ops are the local variables of  *)
(* the call; pc is its position:                                           *)
(*   "start"    the call has been made                                     *)
(*   "compare"  compareSeq is running (its pending calls are ctx.stack)    *)
(*   "map"      buildOps has returned                                      *)
(*   "anchor"   histogramDiff has returned                                 *)
(*   "post"     the ops are in original coordinates                        *)
(*   "done"     the call has returned ops                                  *)
(*   "panic"    the call ended in a run-time panic                         *)
(*   "hang"     the call is in a loop that cannot end                      *)
(* prevOps is a history variable: the value of ops before the last step.   *)
(* peer holds the local variables of a second call running at the same     *)
(* time (NoPeer when there is none).  elemClasses is the class array       *)
(* handed to filterSequence when that function runs on its own (empty      *)
(* otherwise).                                                             *)
(***************************************************************************)
VARIABLES origA, origB, o, driver, pc, a, b, mapping, ctx, ops, prevOps, peer, elemClasses

vars == <<origA, origB, o, driver, pc, a, b, mapping, ctx, ops, prevOps, peer, elemClasses>>

NoPeer == [pc |-> "none"]

Words == {Str("a"), Str("b")}

Colliding == {Other("p", "h"), Other("q", "h")}

Alphabets == {Words, Colliding}

SeqsUpTo(S, n) == UNION {[1 .. k -> S] : k \in 0 .. n}

\* Every value the With... options can give the options of a call.
Options ==
    [useHeuristic : BOOLEAN, forceMinimal : BOOLEAN, costLimit : 0 .. MaxCostLimit,
     preprocessing : BOOLEAN, postprocessing : BOOLEAN, anchorElimination : BOOLEAN]

\* The options of a call that passes the options opt of diffx.go unchanged.
Caller(opt) ==
    [useHeuristic |-> opt.useHeuristic, forceMinimal |-> opt.forceMinimal,
     costLimit |-> opt.costLimit, preprocessing |-> opt.preprocessing,
     postprocessing |-> opt.postprocessing, anchorElimination |-> anchorEliminationDefault]

NoContext == newDiffContext(<<>>, <<>>, defaultOptions)

Init ==
    /\ \E S \in Alphabets :
          /\ origA \in SeqsUpTo(S, MaxTotalLen)
          /\ origB \in SeqsUpTo(S, MaxTotalLen)
    /\ Len(origA) + Len(origB) <= MaxTotalLen
    /\ o \in Options
    /\ driver \in {"myers", "histogram"}
    \* DiffElements never reads anchorElimination: one value is enough there.
    /\ driver = "myers" => o.anchorElimination = anchorEliminationDefault
    /\ pc = "start"
    /\ a = origA
    /\ b = origB
    /\ mapping = NoMapping
    /\ ctx = NoContext
    /\ ops = <<>>
    /\ prevOps = <<>>
    /\ peer = NoPeer
    /\ elemClasses = <<>>

\* DiffElements up to the call of compareSeq.
Preprocess ==
    /\ pc = "start"
    /\ driver = "myers"
    /\ \E p \in {preprocess(a, b, o)} :
          IF trivialCase(a, b).found
          THEN /\ ops' = trivialCase(a, b).ops
               /\ pc' = "done"
               /\ UNCHANGED <<a, b, mapping, ctx>>
          ELSE /\ a' = p.a
               /\ b' = p.b
               /\ mapping' = p.mapping
               /\ ctx' = IF Len(p.a) > 0 \/ Len(p.b) > 0
                         THEN startCompare(p.ctx, o.forceMinimal) ELSE p.ctx
               /\ pc' = "compare"
               /\ UNCHANGED ops
    /\ prevOps' = ops
    /\ UNCHANGED <<origA, origB, o, driver, peer, elemClasses>>

\* One call of compareSeq: the call on top of the stack.
CompareSeq ==
    /\ pc = "compare"
    /\ ctx.stack # <<>>
    /\ ctx' = compareSeq(ctx)
    /\ pc' = IF ctx'.panic THEN "panic" ELSE "compare"
    /\ prevOps' = ops
    /\ UNCHANGED <<origA, origB, o, driver, a, b, mapping, ops, peer, elemClasses>>

\* compareSeq has returned: ctx.buildOps().
BuildOps ==
    /\ pc = "compare"
    /\ ctx.stack = <<>>
    /\ \E r \in {buildOps(ctx)} :
          /\ ops' = r.ops
          /\ pc' = IF r.stuck THEN "hang" ELSE "map"
    /\ prevOps' = ops
    /\ UNCHANGED <<origA, origB, o, driver, a, b, mapping, ctx, peer, elemClasses>>

\* if mapping != nil { ops = mapping.mapOps(ops) }
MapOps ==
    /\ pc = "map"
    /\ ops' = mapOps(mapping, ops)
    /\ pc' = "post"
    /\ prevOps' = ops
    /\ UNCHANGED <<origA, origB, o, driver, a, b, mapping, ctx, peer, elemClasses>>

\* The end of DiffElements: shiftBoundaries on the current a and b.
Postprocess ==
    /\ pc = "post"
    /\ driver = "myers"
    /\ \E r \in {postprocess(ops, a, b, o)} :
          /\ ops' = r.ops
          /\ pc' = IF r.err = "none" THEN "done" ELSE r.err
    /\ prevOps' = ops
    /\ UNCHANGED <<origA, origB, o, driver, a, b, mapping, ctx, peer, elemClasses>>

\* DiffElementsHistogram up to the return of histogramDiff.
HistogramDiff ==
    /\ pc = "start"
    /\ driver = "histogram"
    /\ \E r \in {histogramDiff(a, b, defaultHistogramOptions)} :
          /\ ops' = r.ops
          /\ pc' = IF r.err = "none" THEN "anchor" ELSE r.err
    /\ prevOps' = ops
    /\ UNCHANGED <<origA, origB, o, driver, a, b, mapping, ctx, peer, elemClasses>>

\* if o.anchorElimination { ops = eliminateWeakAnchors(ops, origA, origB) }
EliminateWeakAnchors ==
    /\ pc = "anchor"
    /\ ops' = IF o.anchorElimination THEN eliminateWeakAnchors(ops, origA, origB) ELSE ops
    /\ pc' = "post"
    /\ prevOps' = ops
    /\ UNCHANGED <<origA, origB, o, driver, a, b, mapping, ctx, peer, elemClasses>>

\* The end of DiffElementsHistogram: shiftBoundaries on origA and origB.
PostprocessHistogram ==
    /\ pc = "post"
    /\ driver = "histogram"
    /\ \E r \in {postprocess(ops, origA, origB, o)} :
          /\ ops' = r.ops
          /\ pc' = IF r.err = "none" THEN "done" ELSE r.err
    /\ prevOps' = ops
    /\ UNCHANGED <<origA, origB, o, driver, a, b, mapping, ctx, peer, elemClasses>>

Next ==
    \/ Preprocess
    \/ CompareSeq
    \/ BuildOps
    \/ MapOps
    \/ Postprocess
    \/ HistogramDiff
    \/ EliminateWeakAnchors
    \/ PostprocessHistogram

Spec == Init /\ [][Next]_vars

(***************************************************************************)
(* Diff(a, b, WithMinimal(true)) alone, on longer inputs.                  *)
(***************************************************************************)
InitMinimal ==
    /\ origA \in SeqsUpTo(Words, MaxMinimalLen)
    /\ origB \in SeqsUpTo(Words, MaxMinimalLen)
    /\ Len(origA) + Len(origB) <= MaxMinimalLen
    /\ o = Caller(WithMinimal(defaultOptions, TRUE))
    /\ driver = "myers"
    /\ pc = "start"
    /\ a = origA
    /\ b = origB
    /\ mapping = NoMapping
    /\ ctx = NoContext
    /\ ops = <<>>
    /\ prevOps = <<>>
    /\ peer = NoPeer
    /\ elemClasses = <<>>

NextMyers ==
    \/ Preprocess
    \/ CompareSeq
    \/ BuildOps
    \/ MapOps
    \/ Postprocess

SpecMinimal == InitMinimal /\ [][NextMyers]_vars

(***************************************************************************)
(* What the properties speak of.                                           *)
(***************************************************************************)
\* A[lo:hi] exists.
InRange(s, lo, hi) == 0 <= lo /\ lo <= hi /\ hi <= Len(s)

OpInRange(op, A, B) == InRange(A, op.AStart, op.AEnd) /\ InRange(B, op.BStart, op.BEnd)

\* The walk over the ops: A[AStart:AEnd] for Equal, B[BStart:BEnd] for
\* Insert, nothing for Delete.
RECURSIVE Applied(_, _, _, _)
Applied(list, A, B, k) ==
    IF k > Len(list) THEN <<>>
    ELSE (IF list[k].Type = "Equal" THEN SubSeq(A, list[k].AStart + 1, list[k].AEnd)
          ELSE IF list[k].Type = "Insert" THEN SubSeq(B, list[k].BStart + 1, list[k].BEnd)
          ELSE <<>>) \o Applied(list, A, B, k + 1)

Reconstructs(list, A, B) ==
    /\ \A k \in 1 .. Len(list) : OpInRange(list[k], A, B)
    /\ Applied(list, A, B, 1) = B

Contiguous(list, A, B) ==
    IF Len(list) = 0 THEN Len(A) = 0 /\ Len(B) = 0
    ELSE /\ list[1].AStart = 0 /\ list[1].BStart = 0
         /\ list[Len(list)].AEnd = Len(A) /\ list[Len(list)].BEnd = Len(B)
         /\ \A k \in 1 .. Len(list) - 1 :
               list[k].AEnd = list[k + 1].AStart /\ list[k].BEnd = list[k + 1].BStart

\* Each index of [0,|A|) lies in exactly one Equal or Delete range, each
\* index of [0,|B|) in exactly one Equal or Insert range.
Covers(list, A, B) ==
    /\ \A i \in 0 .. Len(A) - 1 :
          Cardinality({k \in 1 .. Len(list) : list[k].Type \in {"Equal", "Delete"}
                          /\ list[k].AStart <= i /\ i < list[k].AEnd}) = 1
    /\ \A j \in 0 .. Len(B) - 1 :
          Cardinality({k \in 1 .. Len(list) : list[k].Type \in {"Equal", "Insert"}
                          /\ list[k].BStart <= j /\ j < list[k].BEnd}) = 1

EqualValid(op, A, B) ==
    /\ OpInRange(op, A, B)
    /\ op.AEnd - op.AStart = op.BEnd - op.BStart
    /\ op.AEnd - op.AStart > 0
    /\ \A k \in 0 .. op.AEnd - op.AStart - 1 : Equal(A[op.AStart + k + 1], B[op.BStart + k + 1])

Touching(prev, next) ==
    prev.Type = next.Type /\ prev.AEnd = next.AStart /\ prev.BEnd = next.BStart

\* The number of elements the Delete and Insert ops cover.
RECURSIVE EditCost(_, _)
EditCost(list, k) ==
    IF k > Len(list) THEN 0
    ELSE (IF list[k].Type = "Delete" THEN list[k].AEnd - list[k].AStart
          ELSE IF list[k].Type = "Insert" THEN list[k].BEnd - list[k].BStart
          ELSE 0) + EditCost(list, k + 1)

\* The length of a longest common subsequence, row by row: prev[j + 1] is
\* the length for the first i - 1 elements of A and the first j of B.
RECURSIVE LCSNextRow(_, _, _, _, _, _)
LCSNextRow(A, B, i, prev, j, cur) ==
    IF j > Len(B) THEN cur
    ELSE LCSNextRow(A, B, i, prev, j + 1,
                    Append(cur, IF Equal(A[i], B[j]) THEN prev[j] + 1
                                ELSE Max(prev[j + 1], cur[j])))

RECURSIVE LCSRows(_, _, _, _)
LCSRows(A, B, i, prev) ==
    IF i > Len(A) THEN prev[Len(B) + 1]
    ELSE LCSRows(A, B, i + 1, LCSNextRow(A, B, i, prev, 1, <<0>>))

LCS(A, B) == LCSRows(A, B, 1, [j \in 1 .. Len(B) + 1 |-> 0])

Returned == pc = "done"

(***************************************************************************)
(* Properties.                                                             *)
(***************************************************************************)
\* C1: the ops the Myers driver returns reconstruct B: walking them in
\* order, A[AStart:AEnd] for each Equal and B[BStart:BEnd] for each Insert
\* (nothing for a Delete) gives exactly B, whatever the options.
C1_MyersReconstruction ==
    (driver = "myers" /\ Returned) => Reconstructs(ops, origA, origB)

\* C2: the ops the histogram driver returns reconstruct B in the same way,
\* also when no anchor qualifies and the Myers fallback runs.
C2_HistogramReconstruction ==
    (driver = "histogram" /\ Returned) => Reconstructs(ops, origA, origB)

\* C3: the op list either driver returns starts at (0,0), ends at
\* (|A|,|B|), each op starts where the one before it ends (in both
\* coordinates), and so the ranges cover every index of A and of B exactly
\* once.
C3_ContiguityAndCoverage ==
    Returned => Contiguous(ops, origA, origB) /\ Covers(ops, origA, origB)

\* C4: no call of either driver ends in a run-time panic (or in a loop that
\* cannot end).
C4_NoRuntimeError == pc \notin {"panic", "hang"}

\* C5: in the returned ops every Equal op has AEnd-AStart = BEnd-BStart > 0
\* and pairs only elements that are Equal, also when unequal elements share
\* a hash.
C5_EqualValidity ==
    Returned => \A k \in 1 .. Len(ops) : ops[k].Type = "Equal" => EqualValid(ops[k], origA, origB)

\* The histogram driver has returned an Equal op for inputs in which two
\* unequal elements, one of A and one of B, share their hash.
C5_Witness ==
    /\ Returned
    /\ driver = "histogram"
    /\ \E k \in 1 .. Len(ops) : ops[k].Type = "Equal"
    /\ \E i \in 1 .. Len(origA), j \in 1 .. Len(origB) :
          Hash(origA[i]) = Hash(origB[j]) /\ ~Equal(origA[i], origB[j])

StrictlySmaller(rect, parent) ==
    /\ parent[1] <= rect[1] /\ rect[2] <= parent[2]
    /\ parent[3] <= rect[3] /\ rect[4] <= parent[4]
    /\ rect # parent

\* C6 (its safety half): with a user-supplied costLimit >= 1, every
\* recursive call of compareSeq is on a rectangle strictly smaller than the
\* rectangle of the call that makes it.
C6_RecursionShrinks ==
    (driver = "myers" /\ pc = "compare" /\ o.costLimit >= 1) =>
        \A k \in 1 .. Len(ctx.stack) :
            \/ ctx.stack[k].parent = <<>>
            \/ StrictlySmaller(Rect(ctx.stack[k].xoff, ctx.stack[k].xlim,
                                    ctx.stack[k].yoff, ctx.stack[k].ylim),
                               ctx.stack[k].parent)

\* C7: the script Diff(a, b, WithMinimal(true)) returns is optimal: its
\* Delete and Insert ops cover |A| + |B| - 2*LCS(A,B) elements.
C7_MinimalEditScript ==
    (driver = "myers" /\ Returned /\ o.forceMinimal) =>
        EditCost(ops, 1) = Len(origA) + Len(origB) - 2 * LCS(origA, origB)

C9_CanonicalForm ==
    Returned => /\ \A k \in 1 .. Len(ops) - 1 : ~Touching(ops[k], ops[k + 1])
                /\ mergeAdjacentOps(ops) = ops

\* The Myers driver has returned, after mapOps mapped a filtered result
\* back, an Equal op of two or more elements (single-element ops merged).
C9_Witness ==
    /\ Returned
    /\ driver = "myers"
    /\ ~mapping.nil
    /\ \E k \in 1 .. Len(ops) : ops[k].Type = "Equal" /\ ops[k].AEnd - ops[k].AStart >= 2

\* C10: with an empty input either driver returns (no panic): no ops when
\* both inputs are empty, the single op Insert{0, 0, 0, |B|} when only A is
\* empty, the single op Delete{0, |A|, 0, 0} when only B is empty.
C10_EmptyInputs ==
    (Len(origA) = 0 \/ Len(origB) = 0) =>
        /\ pc \notin {"panic", "hang"}
        /\ Returned =>
              ops = IF Len(origA) = 0 /\ Len(origB) = 0 THEN <<>>
                    ELSE IF Len(origA) = 0 THEN <<Op("Insert", 0, 0, 0, Len(origB))>>
                    ELSE <<Op("Delete", 0, Len(origA), 0, 0)>>

\* The histogram driver has returned for an empty A and a B of two or more
\* elements, with postprocessing on.
C10_Witness ==
    /\ Returned
    /\ driver = "histogram"
    /\ Len(origA) = 0
    /\ Len(origB) >= 2
    /\ o.postprocessing

(***************************************************************************)
(* Postprocessing, merging and index remapping.                            *)
(***************************************************************************)
NonString(elems) == \A k \in 1 .. Len(elems) : elems[k].kind # "StringElement"

\* The call has returned from its postprocessing block (not from a trivial case).
Postprocessed == Returned /\ (driver = "histogram" \/ ~trivialCase(origA, origB).found)

\* C11: when no element of A or B is a StringElement, shiftBoundaries moves
\* no op: its output is its input with adjacent ops merged.
C11_ShiftInertOnNonStrings ==
    (Postprocessed /\ o.postprocessing /\ NonString(origA) /\ NonString(origB))
        => ops = mergeAdjacentOps(prevOps)

(***************************************************************************)
(* DiffHistogram with default options on words that include a stopword     *)
(* and the same word capitalised.                                          *)
(***************************************************************************)
StopwordAlphabet == {Str("the"), Str("The"), Str("b")}

InitAnchors ==
    /\ origA \in SeqsUpTo(StopwordAlphabet, MaxAnchorLen)
    /\ origB \in SeqsUpTo(StopwordAlphabet, MaxAnchorLen)
    /\ Len(origA) + Len(origB) <= MaxAnchorLen
    /\ o = Caller(defaultOptions)
    /\ driver = "histogram"
    /\ pc = "start"
    /\ a = origA
    /\ b = origB
    /\ mapping = NoMapping
    /\ ctx = NoContext
    /\ ops = <<>>
    /\ prevOps = <<>>
    /\ peer = NoPeer
    /\ elemClasses = <<>>

NextHistogram ==
    \/ HistogramDiff
    \/ EliminateWeakAnchors
    \/ PostprocessHistogram

SpecAnchors == InitAnchors /\ [][NextHistogram]_vars

\* The contiguous subranges of a sequence.
Slices(elems) == {SubSeq(elems, i, j) : i \in 1 .. Len(elems) + 1, j \in 0 .. Len(elems)}

\* The anchor histogramDiffRecursive selects for a call on sa, sb.
anchorOf(sa, sb) ==
    findAnchor(sa, sb, defaultHistogramOptions, 0,
               [bestIdx |-> -1, bestScore |-> initialBestScore(Len(sa), Len(sb)),
                bestHash |-> ""])

InStopwordSet(e) == e.kind = "StringElement" /\ e.val \in stopwords

\* Every element of sb that has an Equal element in sa is in the stopword set.
OnlyStopwordsShared(sa, sb) ==
    \A j \in 1 .. Len(sb) :
        (\E i \in 1 .. Len(sa) : Equal(sa[i], sb[j])) => InStopwordSet(sb[j])

\* C12: in a call of histogramDiffRecursive on non-empty subranges sa, sb
\* of A and B (every call the driver makes is on such a pair) the anchor
\* b[bestIdx] is not in the stopword set, and when every shared element is
\* a stopword there is no anchor and the call returns what myersFallback
\* returns.
C12_StopwordsNeverAnchors ==
    pc = "anchor" =>
        \A sa \in Slices(origA), sb \in Slices(origB) :
            (Len(sa) > 0 /\ Len(sb) > 0) =>
                /\ anchorOf(sa, sb).bestIdx # -1
                      => ~InStopwordSet(sb[anchorOf(sa, sb).bestIdx + 1])
                /\ OnlyStopwordsShared(sa, sb)
                      => /\ anchorOf(sa, sb).bestIdx = -1
                         /\ histogramDiffRecursive(sa, sb, 0, 0, defaultHistogramOptions)
                               = myersFallback(sa, sb, 0, 0)

\* histogramDiff has returned for inputs that share a stopword and another
\* word: the stopword comes first in B and the other word is the anchor;
\* a subrange that shares only the stopword went to the fallback.
C12_Witness ==
    /\ pc = "anchor"
    /\ Len(origA) >= 2 /\ Len(origB) >= 2
    /\ origB[1] = Str("the") /\ origA[Len(origA)] = Str("the")
    /\ anchorOf(origA, origB).bestIdx > 0
    /\ \E sa \in Slices(origA), sb \in Slices(origB) :
          /\ Len(sa) > 0 /\ Len(sb) > 0
          /\ \E i \in 1 .. Len(sa), j \in 1 .. Len(sb) : Equal(sa[i], sb[j])
          /\ OnlyStopwordsShared(sa, sb)

(***************************************************************************)
(* One contiguous run inserted or removed.                                 *)
(***************************************************************************)
\* long is short with one non-empty contiguous run of elements inserted.
OneRunInserted(short, long) ==
    /\ Len(long) > Len(short)
    /\ \E i \in 0 .. Len(short) :
          short = SubSeq(long, 1, i) \o SubSeq(long, i + 1 + Len(long) - Len(short), Len(long))

OpsOfType(t) == {k \in 1 .. Len(ops) : ops[k].Type = t}

Ended == pc \in {"done", "panic", "hang"}

\* C13: with preprocessing and postprocessing off, when B is A with one run
\* inserted Diff returns no Delete and exactly one Insert, of |B| - |A|
\* elements; when B is A with one run removed it returns no Insert and
\* exactly one Delete, of |A| - |B| elements.
C13_PureInsertionDeletion ==
    (driver = "myers" /\ Ended /\ ~o.preprocessing /\ ~o.postprocessing) =>
        /\ OneRunInserted(origA, origB) =>
              /\ Returned
              /\ OpsOfType("Delete") = {}
              /\ \E k \in 1 .. Len(ops) :
                    /\ OpsOfType("Insert") = {k}
                    /\ ops[k].BEnd - ops[k].BStart = Len(origB) - Len(origA)
        /\ OneRunInserted(origB, origA) =>
              /\ Returned
              /\ OpsOfType("Insert") = {}
              /\ \E k \in 1 .. Len(ops) :
                    /\ OpsOfType("Delete") = {k}
                    /\ ops[k].AEnd - ops[k].AStart = Len(origA) - Len(origB)

\* Diff has returned for a B that is A with a run of two elements inserted,
\* and the Insert lies between two Equal ops.
C13_Witness ==
    /\ driver = "myers" /\ Returned /\ ~o.preprocessing /\ ~o.postprocessing
    /\ OneRunInserted(origA, origB)
    /\ Len(origB) - Len(origA) = 2
    /\ Len(ops) = 3
    /\ ops[1].Type = "Equal" /\ ops[2].Type = "Insert" /\ ops[3].Type = "Equal"

\* C16: when preprocessing produced a mapping, the sequences DiffElements
\* hands to shiftBoundaries are the caller's A and B, the sequences the
\* mapped ops index into.
C16_ShiftOnOriginalSequences ==
    (driver = "myers" /\ pc = "post" /\ o.postprocessing /\ ~mapping.nil)
        => (a = origA /\ b = origB)

(***************************************************************************)
(* shiftBoundaries on one op over a sequence of blank, punctuated and      *)
(* plain words: a Delete of a[s, e), an Insert of b[s, e) or an Equal.     *)
(***************************************************************************)
ShiftAlphabet == {Str(""), Str("end."), Str("-item"), Str("x")}

InitShift ==
    /\ \E elems \in SeqsUpTo(ShiftAlphabet, MaxShiftLen) :
       \E s \in 0 .. Len(elems), e \in 0 .. Len(elems) :
          /\ s <= e
          /\ \/ a = elems /\ b = <<>> /\ ops = <<Op("Delete", s, e, 0, 0)>>
             \/ a = <<>> /\ b = elems /\ ops = <<Op("Insert", 0, 0, s, e)>>
             \/ a = elems /\ b = elems /\ ops = <<Op("Equal", s, e, s, e)>>
    /\ origA = a
    /\ origB = b
    /\ o = Caller(defaultOptions)
    /\ driver = "myers"
    /\ pc = "post"
    /\ mapping = NoMapping
    /\ ctx = NoContext
    /\ prevOps = <<>>
    /\ peer = NoPeer
    /\ elemClasses = <<>>

SpecShift == InitShift /\ [][Postprocess]_vars

\* The sequence a Delete or Insert ranges over, and its range in it.
ElemsOf(op) == IF op.Type = "Delete" THEN a ELSE b

StartOf(op) == IF op.Type = "Delete" THEN op.AStart ELSE op.BStart

EndOf(op) == IF op.Type = "Delete" THEN op.AEnd ELSE op.BEnd

Without(elems, s, e) == SubSeq(elems, 1, s) \o SubSeq(elems, e + 1, Len(elems))

Count(elems, x) == Cardinality({k \in 1 .. Len(elems) : elems[k] = x})

\* The single op has been through shiftBoundaries: prevOps[1] is the op
\* before, ops[1] the op after.
Shifted(type) == pc = "done" /\ Len(prevOps) = 1 /\ prevOps[1].Type = type

\* On its own arguments a shift preserves the edit: with an op whose range
\* lies inside the sequence handed to shiftDelete (shiftInsert), the range
\* after the shift leaves the same sequence and holds the same elements,
\* stays inside the sequence, and nothing else of the op changes.
ShiftPreservesEditOfArgument ==
    /\ pc # "panic"
    /\ \A type \in {"Delete", "Insert"} :
          Shifted(type) =>
             LET p == prevOps[1]
                 q == ops[1]
                 elems == ElemsOf(p)
             IN /\ Len(ops) = 1 /\ q.Type = type
                /\ 0 <= StartOf(q) /\ StartOf(q) <= EndOf(q) /\ EndOf(q) <= Len(elems)
                /\ Without(elems, StartOf(q), EndOf(q)) = Without(elems, StartOf(p), EndOf(p))
                /\ \A x \in ShiftAlphabet :
                      Count(SubSeq(elems, StartOf(q) + 1, EndOf(q)), x)
                         = Count(SubSeq(elems, StartOf(p) + 1, EndOf(p)), x)
                /\ type = "Delete" => (q.BStart = p.BStart /\ q.BEnd = p.BEnd)
                /\ type = "Insert" => (q.AStart = p.AStart /\ q.AEnd = p.AEnd)

\* C17: in DiffElements, whenever shiftDelete (shiftInsert) moves a Delete
\* of A[s, e) (an Insert of B[s, e)) to another range, that range lies
\* inside A (B) and removing it from A (B) leaves the same sequence as
\* removing [s, e).  The ops at "post" are in the coordinates of the
\* caller's A and B; shiftOp is applied to them with the current a and b.
C17_ShiftPreservesEdit ==
    (driver = "myers" /\ pc = "post" /\ o.postprocessing) =>
        \A i \in 1 .. Len(ops) :
            LET p == ops[i]
                src == IF p.Type = "Delete" THEN origA ELSE origB
                kept(r) ==
                    (p.Type # "Equal" /\ ~r.panic) =>
                        /\ 0 <= StartOf(r.op) /\ EndOf(r.op) <= Len(src)
                        /\ Without(src, StartOf(r.op), EndOf(r.op))
                              = Without(src, StartOf(p), EndOf(p))
            IN kept(shiftOp(p, a, b))

\* A shift of the range [s, e) by k (forward when k > 0) that the loops of
\* shiftDelete / shiftInsert allow.
LegalShift(elems, s, e, k) ==
    IF k >= 0
    THEN \A i \in 0 .. k - 1 : e + i < Len(elems) /\ Equal(elems[s + i + 1], elems[e + i + 1])
    ELSE \A i \in 0 .. -k - 1 : s - i - 1 >= 0 /\ Equal(elems[e - i], elems[s - i])

ScoreAt(elems, s, e, k) == scoreBoundary(s + k, e + k, elems).score

\* C18: the position of a non-empty Delete or Insert after the shift is a
\* legal shift of the highest score among all legal shifts, and it is the
\* original position unless it scores strictly higher than that.
C18_ShiftIsArgMax ==
    \A type \in {"Delete", "Insert"} :
        (Shifted(type) /\ EndOf(prevOps[1]) > StartOf(prevOps[1])) =>
            LET elems == ElemsOf(prevOps[1])
                s == StartOf(prevOps[1])
                e == EndOf(prevOps[1])
                chosen == StartOf(ops[1]) - s
            IN /\ EndOf(ops[1]) - e = chosen
               /\ LegalShift(elems, s, e, chosen)
               /\ \A k \in -Len(elems) .. Len(elems) :
                     LegalShift(elems, s, e, k)
                        => ScoreAt(elems, s, e, k) <= ScoreAt(elems, s, e, chosen)
               /\ chosen # 0 => ScoreAt(elems, s, e, chosen) > ScoreAt(elems, s, e, 0)

\* An Insert stayed in place although another legal shift scores the same,
\* and the score is not zero.
C18_Witness ==
    /\ Shifted("Insert")
    /\ ops[1] = prevOps[1]
    /\ ops[1].BEnd > ops[1].BStart
    /\ ScoreAt(b, ops[1].BStart, ops[1].BEnd, 0) > 0
    /\ \E k \in -Len(b) .. Len(b) :
          /\ k # 0
          /\ LegalShift(b, ops[1].BStart, ops[1].BEnd, k)
          /\ ScoreAt(b, ops[1].BStart, ops[1].BEnd, k) = ScoreAt(b, ops[1].BStart, ops[1].BEnd, 0)

(***************************************************************************)
(* mergeAdjacentOps and mergeOps on arbitrary op lists: any types, ranges  *)
(* that touch, overlap or leave gaps.  Each step applies one of the two    *)
(* functions to the current list; two steps are taken.                     *)
(***************************************************************************)
MergeCoords == 0 .. 1

MergeOpValues ==
    {Op(t, as, ae, bs, be) : t \in {"Equal", "Delete", "Insert"},
                             as \in MergeCoords, ae \in MergeCoords,
                             bs \in MergeCoords, be \in MergeCoords}

InitMerge ==
    /\ ops \in SeqsUpTo({op \in MergeOpValues : op.AStart <= op.AEnd /\ op.BStart <= op.BEnd},
                        MaxMergeLen)
    /\ prevOps = <<>>
    /\ pc = "merge"
    /\ origA = <<>>
    /\ origB = <<>>
    /\ a = <<>>
    /\ b = <<>>
    /\ o = Caller(defaultOptions)
    /\ driver = "myers"
    /\ mapping = NoMapping
    /\ ctx = NoContext
    /\ peer = NoPeer
    /\ elemClasses = <<>>

MergeAdjacentOps ==
    /\ pc \in {"merge", "merged"}
    /\ ops' = mergeAdjacentOps(ops)
    /\ pc' = IF pc = "merge" THEN "merged" ELSE "remerged"
    /\ prevOps' = ops
    /\ UNCHANGED <<origA, origB, o, driver, a, b, mapping, ctx, peer, elemClasses>>

MergeOps ==
    /\ pc \in {"merge", "merged"}
    /\ ops' = mergeOps(ops)
    /\ pc' = IF pc = "merge" THEN "merged" ELSE "remerged"
    /\ prevOps' = ops
    /\ UNCHANGED <<origA, origB, o, driver, a, b, mapping, ctx, peer, elemClasses>>

NextMerge == MergeAdjacentOps \/ MergeOps

SpecMerge == InitMerge /\ [][NextMerge]_vars

\* The merge condition of the contract for the ops l[i] and l[i + 1].
Mergeable(l, i) ==
    /\ l[i].Type = l[i + 1].Type
    /\ l[i].AEnd = l[i + 1].AStart
    /\ l[i].BEnd = l[i + 1].BStart

\* The indices at which a group of merged ops starts.
GroupStarts(l) == {1} \cup {i + 1 : i \in {k \in 1 .. Len(l) - 1 : ~Mergeable(l, k)}}

\* The j-th group of l as the pair <<first, last>> of indices.
Group(l, j) ==
    LET first == CHOOSE s \in GroupStarts(l) :
                     Cardinality({t \in GroupStarts(l) : t <= s}) = j
        later == {t \in GroupStarts(l) : t > first}
    IN <<first, IF later = {} THEN Len(l)
                ELSE (CHOOSE t \in later : \A u \in later : t <= u) - 1>>

\* What the contract makes of l: one op per group, from the starts of the
\* group's first op to the ends of its last, in order.
MergedByContract(l) ==
    IF Len(l) = 0 THEN l
    ELSE [j \in 1 .. Cardinality(GroupStarts(l)) |->
             Op(l[Group(l, j)[1]].Type,
                l[Group(l, j)[1]].AStart, l[Group(l, j)[2]].AEnd,
                l[Group(l, j)[1]].BStart, l[Group(l, j)[2]].BEnd)]

\* C20: mergeAdjacentOps and mergeOps merge consecutive ops exactly when
\* they have the same type and touch in both coordinates, the merged op
\* running from the first's starts to the last's ends; all other ops stay
\* apart and in order; and merging a merged list changes nothing.
C20_MergeContract ==
    /\ pc = "merged" => (ops = MergedByContract(prevOps)
                         /\ \A i \in 1 .. Len(ops) - 1 : ~Mergeable(ops, i))
    /\ pc = "remerged" => ops = prevOps

\* Three ops of which the first two were merged and the third, of the same
\* type and touching in A only, stayed apart.
C20_Witness ==
    /\ pc = "merged"
    /\ Len(prevOps) = 3
    /\ Len(ops) = 2
    /\ Mergeable(prevOps, 1)
    /\ ops[1].Type = ops[2].Type
    /\ ops[1].AEnd = ops[2].AStart
    /\ ops[1].BEnd # ops[2].BStart
    /\ ops[1].AEnd > ops[1].AStart

(***************************************************************************)
(* mapOps on its own: an edit script over filtered sequences of lengths n  *)
(* and m, given as its steps (one element each) and grouped into runs,     *)
(* and strictly ascending index maps into originals of lengths origN and   *)
(* origM.                                                                  *)
(***************************************************************************)
StepKinds == {"Equal", "Delete", "Insert"}

StepCount(steps, kinds) == Cardinality({k \in 1 .. Len(steps) : steps[k] \in kinds})

\* The op of step k: one element at the position the steps before it reach.
StepOp(steps, k) ==
    LET x == StepCount(SubSeq(steps, 1, k - 1), {"Equal", "Delete"})
        y == StepCount(SubSeq(steps, 1, k - 1), {"Equal", "Insert"})
    IN Op(steps[k], x, IF steps[k] = "Insert" THEN x ELSE x + 1,
                    y, IF steps[k] = "Delete" THEN y ELSE y + 1)

RawOps(steps) == MergedByContract([k \in 1 .. Len(steps) |-> StepOp(steps, k)])

Ascending(n, origLen) ==
    {s \in [1 .. n -> 0 .. origLen - 1] : \A i \in 1 .. n - 1 : s[i] < s[i + 1]}

InitMapOps ==
    /\ \E steps \in SeqsUpTo(StepKinds, 2 * MaxMapLen) :
          /\ StepCount(steps, {"Equal", "Delete"}) <= MaxMapLen
          /\ StepCount(steps, {"Equal", "Insert"}) <= MaxMapLen
          /\ ops = RawOps(steps)
          /\ a = [i \in 1 .. StepCount(steps, {"Equal", "Delete"}) |-> Str("a")]
          /\ b = [i \in 1 .. StepCount(steps, {"Equal", "Insert"}) |-> Str("a")]
    /\ \E origN \in Len(a) .. MaxMapLen, origM \in Len(b) .. MaxMapLen :
          /\ origA = [i \in 1 .. origN |-> Str("a")]
          /\ origB = [i \in 1 .. origM |-> Str("a")]
          /\ \E aToOrig \in Ascending(Len(a), origN), bToOrig \in Ascending(Len(b), origM) :
                mapping = [nil |-> FALSE, aToOrig |-> aToOrig, bToOrig |-> bToOrig,
                           origN |-> origN, origM |-> origM]
    /\ o = Caller(defaultOptions)
    /\ driver = "myers"
    /\ pc = "map"
    /\ ctx = NoContext
    /\ prevOps = <<>>
    /\ peer = NoPeer
    /\ elemClasses = <<>>

SpecMapOps == InitMapOps /\ [][MapOps]_vars

\* mapOps has run: prevOps holds the raw ops, ops the mapped ones.
Mapped == pc = "post" /\ ~mapping.nil

\* The raw ops match filtered A index i with filtered B index j.
RawMatched(i, j) ==
    \E k \in 1 .. Len(prevOps) :
        /\ prevOps[k].Type = "Equal"
        /\ prevOps[k].AStart <= i /\ i < prevOps[k].AEnd
        /\ j = prevOps[k].BStart + (i - prevOps[k].AStart)

Survivors(toOrig) == {toOrig[i] : i \in 1 .. Len(toOrig)}

\* C19: mapOps returns ops over the original coordinates that run without
\* a gap from (0,0) to (origN,origM); each Equal op pairs, element by
\* element, originals of filtered elements that the raw ops matched; each
\* filtered-out index of A lies in a Delete and in no Equal, each
\* filtered-out index of B in an Insert and in no Equal.
C19_MapOpsKeepsFilteredOut ==
    Mapped =>
        /\ Contiguous(ops, origA, origB)
        /\ \A k \in 1 .. Len(ops) :
              /\ ops[k].Type = "Delete" => ops[k].BStart = ops[k].BEnd
              /\ ops[k].Type = "Insert" => ops[k].AStart = ops[k].AEnd
              /\ ops[k].Type = "Equal" =>
                    /\ ops[k].AEnd - ops[k].AStart = ops[k].BEnd - ops[k].BStart
                    /\ \A t \in 0 .. ops[k].AEnd - ops[k].AStart - 1 :
                          \E i \in 1 .. Len(mapping.aToOrig), j \in 1 .. Len(mapping.bToOrig) :
                              /\ mapping.aToOrig[i] = ops[k].AStart + t
                              /\ mapping.bToOrig[j] = ops[k].BStart + t
                              /\ RawMatched(i - 1, j - 1)
        /\ \A x \in (0 .. mapping.origN - 1) \ Survivors(mapping.aToOrig) :
              /\ \E k \in 1 .. Len(ops) :
                    ops[k].Type = "Delete" /\ ops[k].AStart <= x /\ x < ops[k].AEnd
              /\ \A k \in 1 .. Len(ops) :
                    ops[k].Type = "Equal" => ~(ops[k].AStart <= x /\ x < ops[k].AEnd)
        /\ \A y \in (0 .. mapping.origM - 1) \ Survivors(mapping.bToOrig) :
              /\ \E k \in 1 .. Len(ops) :
                    ops[k].Type = "Insert" /\ ops[k].BStart <= y /\ y < ops[k].BEnd
              /\ \A k \in 1 .. Len(ops) :
                    ops[k].Type = "Equal" => ~(ops[k].BStart <= y /\ y < ops[k].BEnd)

\* A raw Equal of two elements whose originals have a filtered-out element
\* of A and one of B between them: the Equal is split around a Delete and
\* an Insert.
C19_Witness ==
    /\ Mapped
    /\ prevOps = <<Op("Equal", 0, 2, 0, 2)>>
    /\ mapping.aToOrig = <<0, 2>>
    /\ mapping.bToOrig = <<0, 2>>
    /\ ops = <<Op("Equal", 0, 1, 0, 1), Op("Delete", 1, 2, 1, 1),
               Op("Insert", 2, 2, 1, 2), Op("Equal", 2, 3, 2, 3)>>

(***************************************************************************)
(* Two calls at the same time.  The first call is the state machine above; *)
(* the second call's local variables are the fields of peer, and PeerStep  *)
(* takes the step that the actions above take, on those fields.  The steps *)
(* of the two calls interleave in every order.                             *)
(***************************************************************************)
\* A second call whose steps work on the diffContext of the first call.
ownContextShared(rec) == ctx

\* ctx := newDiffContext(a, b, o): the diffContext a call works on is the
\* one it allocated.
ownContext(rec) == rec.ctx

\* One step of DiffElements on the locals rec.
stepDiffElements(rec) ==
    LET started(p) ==
            IF trivialCase(rec.a, rec.b).found
            THEN [rec EXCEPT !.ops = trivialCase(rec.a, rec.b).ops, !.pc = "done"]
            ELSE [rec EXCEPT !.a = p.a, !.b = p.b, !.mapping = p.mapping,
                             !.ctx = IF Len(p.a) > 0 \/ Len(p.b) > 0
                                     THEN startCompare(p.ctx, rec.o.forceMinimal) ELSE p.ctx,
                             !.pc = "compare"]
        compared(c) == [rec EXCEPT !.ctx = c, !.pc = IF c.panic THEN "panic" ELSE "compare"]
        built(r) == [rec EXCEPT !.ops = r.ops, !.pc = IF r.stuck THEN "hang" ELSE "map"]
        finished(r) == [rec EXCEPT !.ops = r.ops, !.pc = IF r.err = "none" THEN "done" ELSE r.err]
    IN IF rec.pc = "start" THEN started(preprocess(rec.a, rec.b, rec.o))
       ELSE IF rec.pc = "compare" /\ ownContext(rec).stack # <<>>
       THEN compared(compareSeq(ownContext(rec)))
       ELSE IF rec.pc = "compare" THEN built(buildOps(ownContext(rec)))
       ELSE IF rec.pc = "map"
       THEN [rec EXCEPT !.ops = mapOps(rec.mapping, rec.ops), !.pc = "post"]
       ELSE IF rec.pc = "post" THEN finished(postprocess(rec.ops, rec.a, rec.b, rec.o))
       ELSE rec

\* One step of DiffElementsHistogram on the locals rec.
stepDiffElementsHistogram(rec) ==
    LET returned(r) == [rec EXCEPT !.ops = r.ops, !.pc = IF r.err = "none" THEN "anchor" ELSE r.err]
        finished(r) == [rec EXCEPT !.ops = r.ops, !.pc = IF r.err = "none" THEN "done" ELSE r.err]
    IN IF rec.pc = "start" THEN returned(histogramDiff(rec.a, rec.b, defaultHistogramOptions))
       ELSE IF rec.pc = "anchor"
       THEN [rec EXCEPT !.ops = IF rec.o.anchorElimination
                                THEN eliminateWeakAnchors(rec.ops, rec.origA, rec.origB)
                                ELSE rec.ops,
                        !.pc = "post"]
       ELSE IF rec.pc = "post" THEN finished(postprocess(rec.ops, rec.origA, rec.origB, rec.o))
       ELSE rec

\* A second call that runs the other driver than the one it was made on.
stepCallOtherDriver(rec) ==
    IF rec.driver = "myers" THEN stepDiffElementsHistogram(rec) ELSE stepDiffElements(rec)

stepCall(rec) ==
    IF rec.driver = "myers" THEN stepDiffElements(rec) ELSE stepDiffElementsHistogram(rec)

\* The calls that can be made at the same time: a driver, its inputs and
\* the default options.
Calls ==
    {[pc |-> "start", origA |-> A, origB |-> B, o |-> Caller(defaultOptions), driver |-> d,
      a |-> A, b |-> B, mapping |-> NoMapping, ctx |-> NoContext, ops |-> <<>>] :
        A \in SeqsUpTo(Words, MaxConcurrentLen), B \in SeqsUpTo(Words, MaxConcurrentLen),
        d \in {"myers", "histogram"}}

InitConcurrent ==
    /\ peer \in {c \in Calls : Len(c.origA) + Len(c.origB) <= MaxConcurrentLen}
    /\ elemClasses = <<>>
    /\ \E c \in {c \in Calls : Len(c.origA) + Len(c.origB) <= MaxConcurrentLen} :
          /\ origA = c.origA
          /\ origB = c.origB
          /\ o = c.o
          /\ driver = c.driver
          /\ pc = c.pc
          /\ a = c.a
          /\ b = c.b
          /\ mapping = c.mapping
          /\ ctx = c.ctx
          /\ ops = c.ops
    /\ prevOps = <<>>

PeerEnded == peer.pc \in {"done", "panic", "hang"}

\* A step of the second call.
PeerStep ==
    /\ peer.pc # "none"
    /\ ~PeerEnded
    /\ peer' = stepCall(peer)
    /\ UNCHANGED <<origA, origB, o, driver, pc, a, b, mapping, ctx, ops, prevOps, elemClasses>>

NextConcurrent == Next \/ PeerStep

SpecConcurrent == InitConcurrent /\ [][NextConcurrent]_vars

\* What a call returns when it runs alone: [ops, err].
Alone(d, A, B, opt) ==
    IF d = "myers" THEN DiffElements(A, B, opt) ELSE DiffElementsHistogram(A, B, opt)

\* The call with locals [pc, ops] has ended as the call run alone ends.
EndedAs(p, list, alone) ==
    IF p = "done" THEN alone.err = "none" /\ list = alone.ops ELSE alone.err = p

SnakeSearched == driver = "myers" /\ ctx.last.kind = "call" /\ ctx.last.part.via # "none"

\* C21: with forceMinimal, every findMiddleSnake call of the recursion is
\* made with findMinimal and returns from the overlap of the two
\* frontiers, both halves minimal: never a partition from bestSnake (cost
\* limit, too expensive, loop exhausted) and never the greedy fallback.
C21_MinimalDisablesHeuristics ==
    (SnakeSearched /\ o.forceMinimal) =>
        /\ ctx.last.findMinimal
        /\ ctx.last.part.via = "overlap"
        /\ ctx.last.part.loMinimal /\ ctx.last.part.hiMinimal

\* C22: with the cost limit left at its automatic value (option
\* costLimit = 0), no findMiddleSnake call of the recursion ends in
\* greedyFallback.
C22_GreedyOnlyWithLowCostLimit ==
    (SnakeSearched /\ o.costLimit = 0) => ctx.last.part.via # "greedy"

\* The number of leading pairs of the rectangle <<xoff, xlim, yoff, ylim>>
\* of the current a and b that are Equal, counted from pair k on.
RECURSIVE LeadingMatches(_, _)
LeadingMatches(rect, k) ==
    IF rect[1] + k < rect[2] /\ rect[3] + k < rect[4]
          /\ Equal(a[rect[1] + k + 1], b[rect[3] + k + 1])
    THEN LeadingMatches(rect, k + 1) ELSE k

\* C23: a partition from greedyFallback on a rectangle of n by m elements
\* has both halves non-minimal; it lies k steps down the diagonal when
\* k >= 1 leading elements match, and otherwise one step into the longer
\* dimension: (xoff + 1, yoff) when n >= m, (xoff, yoff + 1) when m > n.
C23_GreedyFallbackDirection ==
    (SnakeSearched /\ ctx.last.part.via = "greedy") =>
        LET rect == ctx.last.rect
            part == ctx.last.part
            n == rect[2] - rect[1]
            m == rect[4] - rect[3]
            k == LeadingMatches(rect, 0)
        IN /\ ~part.loMinimal /\ ~part.hiMinimal
           /\ <<part.xmid, part.ymid>> =
                 IF k >= 1 THEN <<rect[1] + k, rect[3] + k>>
                 ELSE IF n >= m THEN <<rect[1] + 1, rect[3]>>
                 ELSE <<rect[1], rect[3] + 1>>

(***************************************************************************)
(* The order of the ops between two Equal ops.                             *)
(***************************************************************************)
\* C24: in the list Diff returns, a run of consecutive Delete and Insert
\* ops is at most one Delete followed by at most one Insert: an Insert is
\* followed, if by anything, by an Equal, and a Delete by an Insert or an
\* Equal.
C24_DeleteBeforeInsert ==
    (Returned /\ driver = "myers") =>
        \A k \in 1 .. Len(ops) - 1 :
            /\ ops[k].Type = "Insert" => ops[k + 1].Type = "Equal"
            /\ ops[k].Type = "Delete" => ops[k + 1].Type # "Delete"

(***************************************************************************)
(* filterSequence on its own: any elements with any class array of the     *)
(* same length.  The result is left in a and in the aToOrig of mapping;    *)
(* origA keeps the elements handed in.                                     *)
(***************************************************************************)
ElementClasses == {"keep", "provisional", "discard"}

InitFilter ==
    /\ origA \in SeqsUpTo(Words, MaxFilterLen)
    /\ elemClasses \in [1 .. Len(origA) -> ElementClasses]
    /\ a = origA
    /\ origB = <<>>
    /\ b = <<>>
    /\ o = Caller(defaultOptions)
    /\ driver = "myers"
    /\ pc = "filter"
    /\ mapping = NoMapping
    /\ ctx = NoContext
    /\ ops = <<>>
    /\ prevOps = <<>>
    /\ peer = NoPeer

\* filteredA, aToOrig := filterSequence(a, aClass)
FilterSequence ==
    /\ pc = "filter"
    /\ \E f \in {filterSequence(a, elemClasses)} :
          /\ a' = f.result
          /\ mapping' = [nil |-> FALSE, aToOrig |-> f.toOrig, bToOrig |-> <<>>,
                         origN |-> Len(a), origM |-> 0]
    /\ pc' = "filtered"
    /\ prevOps' = ops
    /\ UNCHANGED <<origA, origB, o, driver, b, ctx, ops, peer, elemClasses>>

SpecFilter == InitFilter /\ [][FilterSequence]_vars

\* The 0-based index i of the class array has a neighbour of class keep.
KeepNeighbour(i) ==
    \/ (i >= 1 /\ elemClasses[i] = "keep")
    \/ (i + 2 <= Len(elemClasses) /\ elemClasses[i + 2] = "keep")

\* C25: filterSequence emits each keep element, a provisional element
\* exactly when the element just before or just after it exists and is
\* keep, and no discard element; toOrig is strictly ascending, as long as
\* the result, and result[i] is elems[toOrig[i]].
C25_FilterEmissionRule ==
    pc = "filtered" =>
        /\ Len(mapping.aToOrig) = Len(a)
        /\ \A i \in 1 .. Len(a) - 1 : mapping.aToOrig[i] < mapping.aToOrig[i + 1]
        /\ \A i \in 1 .. Len(a) :
              /\ mapping.aToOrig[i] \in 0 .. Len(origA) - 1
              /\ a[i] = origA[mapping.aToOrig[i] + 1]
        /\ \A i \in 0 .. Len(origA) - 1 :
              (i \in Survivors(mapping.aToOrig)) <=>
                  \/ elemClasses[i + 1] = "keep"
                  \/ (elemClasses[i + 1] = "provisional" /\ KeepNeighbour(i))

\* A provisional element next to a keep element was emitted, one between
\* a discard and a provisional element was not.
C25_Witness ==
    /\ pc = "filtered"
    /\ elemClasses = <<"keep", "provisional", "provisional", "discard">>
    /\ mapping.aToOrig = <<0, 1>>

(***************************************************************************)
(* The preprocessing block of DiffElements on inputs long enough for an    *)
(* element to occur more than threshold times, which makes it provisional. *)
(***************************************************************************)
InitCommon ==
    /\ origA \in SeqsUpTo(Words, MaxCommonLenA)
    /\ origB \in SeqsUpTo(Words, MaxCommonLenB)
    /\ o = Caller(defaultOptions)
    /\ driver = "myers"
    /\ pc = "start"
    /\ a = origA
    /\ b = origB
    /\ mapping = NoMapping
    /\ ctx = NoContext
    /\ ops = <<>>
    /\ prevOps = <<>>
    /\ peer = NoPeer
    /\ elemClasses = <<>>

SpecCommon == InitCommon /\ [][Preprocess]_vars

\* The preprocessing block has run with preprocessing on: a, b and mapping
\* are what filterConfusingElements returned for origA and origB.
Filtered == driver = "myers" /\ pc = "compare" /\ o.preprocessing

\* C26: filterConfusingElements returns a mapping only when it removed an
\* element of A or of B; with no mapping it returns A and B themselves.
C26_MappingOnlyWhenFiltered ==
    Filtered =>
        /\ ~mapping.nil => (Len(a) < Len(origA) \/ Len(b) < Len(origB))
        /\ mapping.nil => (a = origA /\ b = origB)

(***************************************************************************)
(* The partition findMiddleSnake returns to compareSeq, and the marks.     *)
(***************************************************************************)
\* C27: the partition findMiddleSnake returns for the trimmed rectangle
\* <<xoff, xlim, yoff, ylim>> of a compareSeq call lies inside the
\* rectangle and at neither of the corners (xoff, yoff) and (xlim, ylim).
C27_PartitionInsideRectangle ==
    SnakeSearched =>
        LET rect == ctx.last.rect
            part == ctx.last.part
        IN /\ rect[1] <= part.xmid /\ part.xmid <= rect[2]
           /\ rect[3] <= part.ymid /\ part.ymid <= rect[4]
           /\ <<part.xmid, part.ymid>> # <<rect[1], rect[3]>>
           /\ <<part.xmid, part.ymid>> # <<rect[2], rect[4]>>

\* The top-level compareSeq has returned (buildOps may have run as well).
Compared ==
    /\ driver = "myers"
    /\ \/ pc = "compare" /\ ctx.stack = <<>>
       \/ pc \in {"map", "hang"}

\* The indices of a change array that are not marked.
Unmarked(changes) == {i \in DOMAIN changes : ~changes[i]}

\* The k-th smallest element of the set S of numbers (k from 1).
Kth(S, k) == CHOOSE i \in S : Cardinality({j \in S : j <= i}) = k

\* C28: when the top-level compareSeq has returned, xchanges and ychanges
\* have the same number of unmarked positions and the k-th unmarked element
\* of A equals the k-th unmarked element of B; the scan of buildOps does
\* not stop advancing, and the ops it returns are non-empty and run from
\* (0, 0) to (n, m).
C28_ChangeMarksPairUp ==
    Compared =>
        /\ Cardinality(Unmarked(ctx.xchanges)) = Cardinality(Unmarked(ctx.ychanges))
        /\ \A k \in 1 .. Cardinality(Unmarked(ctx.xchanges)) :
              k <= Cardinality(Unmarked(ctx.ychanges)) =>
                 Equal(ctx.xvec[Kth(Unmarked(ctx.xchanges), k) + 1],
                       ctx.yvec[Kth(Unmarked(ctx.ychanges), k) + 1])
        /\ pc # "hang"
        /\ pc = "map" =>
              /\ Contiguous(ops, ctx.xvec, ctx.yvec)
              /\ \A k \in 1 .. Len(ops) :
                    ops[k].AEnd > ops[k].AStart \/ ops[k].BEnd > ops[k].BStart

\* compareSeq has split at least once and returned with marked and
\* unmarked elements on both sides, and buildOps has made four ops or more
\* of the marks.
C28_Witness ==
    /\ Compared
    /\ pc = "map"
    /\ ctx.last.kind = "call"
    /\ Cardinality(Unmarked(ctx.xchanges)) >= 2
    /\ Cardinality(Unmarked(ctx.xchanges)) < Len(ctx.xvec)
    /\ Cardinality(Unmarked(ctx.ychanges)) < Len(ctx.yvec)
    /\ Len(ops) >= 4

\* The diffContext with fdiag and bdiag as newDiffContext allocates them.
Zeroed(c) ==
    [c EXCEPT !.fdiag = ZeroArray(Len(c.xvec) + Len(c.yvec) + 3),
              !.bdiag = ZeroArray(Len(c.xvec) + Len(c.yvec) + 3)]

\* C29: the partition findMiddleSnake returned to the compareSeq call just
\* made, with fdiag and bdiag as the earlier calls of the diff left them,
\* is the partition it returns for the same rectangle and findMinimal on
\* freshly zeroed arrays.
C29_ScratchReuseDoesNotLeak ==
    SnakeSearched =>
        LET rect == ctx.last.rect
            same(fresh) == ~fresh.panic /\ fresh.ret = ctx.last.part
        IN same(findMiddleSnake(Zeroed(ctx), rect[1], rect[2], rect[3], rect[4],
                                ctx.last.findMinimal))

(***************************************************************************)
(* The options the histogram driver reads.                                 *)
(***************************************************************************)
\* The options opt with the search options (useHeuristic, forceMinimal,
\* costLimit, preprocessing) put back to their defaults.
SearchDefaults(opt) ==
    [Caller(defaultOptions) EXCEPT !.postprocessing = opt.postprocessing,
                                   !.anchorElimination = opt.anchorElimination]

\* C30: a call of DiffElementsHistogram ends as the call on the same A and
\* B ends whose useHeuristic, forceMinimal, costLimit and preprocessing
\* have their default values and whose postprocessing and
\* anchorElimination are the same: the search options change nothing.
C30_HistogramIgnoresSearchOptions ==
    (driver = "histogram" /\ Ended)
        => EndedAs(pc, ops, DiffElementsHistogram(origA, origB, SearchDefaults(o)))

\* A histogram call with every search option away from its default has
\* returned a list of three ops or more.
C30_Witness ==
    /\ driver = "histogram"
    /\ pc = "done"
    /\ ~o.useHeuristic /\ o.forceMinimal /\ o.costLimit = MaxCostLimit /\ ~o.preprocessing
    /\ o.postprocessing
    /\ Len(ops) >= 3

=============================================================================
